---- MODULE Spec2Model ----
(***************************************************************************)
(* Virtual Private Node installer: the provisioning step pipeline and the  *)
(* release verification of the Bitcoin Core and LND artifacts.             *)
(*                                                                         *)
(* Two generations of the installer are in the repository and both are     *)
(* modelled; `variant` says which one a behaviour follows:                 *)
(*   "cli"  internal/installer/setup.go: Run loops over the steps, the     *)
(*          artifacts are installed by installBitcoin / installLND;        *)
(*   "tui"  the bubbletea progress program (installModel): each step's fn  *)
(*          runs as a command, its stepDoneMsg drives Update; download,    *)
(*          verify and extract are separate steps.                         *)
(* Indices are 1-based here (Go's step i is step i+1).                     *)
(***************************************************************************)
EXTENDS Integers, Sequences, FiniteSets, TLC

\* ---------------------------------------------------------------- bounds
\* invocations of the binary that a behaviour may contain
MaxRuns == 2
\* signers whose key URL, in one import, does not deliver the signer's own key
MaxKeyFaults == 1

\* ------------------------------------------------------- program constants
\* "We require 2 out of 5 valid signatures."
MinValid == 2

bitcoinCoreSigners ==
  << [name |-> "fanquake",   fingerprint |-> "152812300785C96444D3334D17565732E08E5E41"],
     [name |-> "guggero",    fingerprint |-> "F4FC70F07310028424EFC20A8E4256593F177720"],
     [name |-> "hebasto",    fingerprint |-> "E86AE73439625BBEE306AAE6B66D427F873CB1A3"],
     [name |-> "theStack",   fingerprint |-> "D1DBF2C4B96F2DEBF4C16654410108112E7EA81F"],
     [name |-> "willcl-ark", fingerprint |-> "6A8F9C266528E25AEB1D7731C2371D91CB716EA7"] >>

lndSigner == [name |-> "roasbeef", fingerprint |-> "296212681AADF05656A2CDEE90525F7DEEE0AD86"]

\* len(bitcoinCoreSigners)
NumSigners == Len(bitcoinCoreSigners)

Signers == 1..NumSigners

\* a key whose fingerprint is none of the pinned ones
ForeignKey == NumSigners + 1

\* fingerprint of a key outside the trusted set (any value that is not pinned)
ForeignFingerprint == "0000000000000000000000000000000000000000"

\* ------------------------------------------------------------------ errors
\* Go's error values: nil, or an error carrying a message kind; `got`/`need`
\* are the two numbers formatted into "insufficient valid signatures".
Err(kind) == [kind |-> kind, got |-> 0, need |-> 0]
Nil == Err("nil")

\* ------------------------------------------------------------ step statuses
stepPending == "Pending"
stepRunning == "Running"
stepDone    == "Succeeded"
stepFailed  == "Failed"

\* ------------------------------------------------------------- buildSteps
\* (mutation) the entry of configureFirewall is missing from the list
buildStepsCli_noFirewall(c) ==
  << "Creating system user", "Creating directories", "Disabling IPv6",
     "Installing Tor", "Configuring Tor",
     "Adding user to debian-tor group", "Starting Tor",
     "Installing Bitcoin Core 29.2", "Configuring Bitcoin Core",
     "Creating bitcoind service", "Starting Bitcoin Core" >>
  \o (IF c.components = "bitcoin+lnd"
      THEN << "Installing LND 0.20.0-beta", "Configuring LND",
              "Creating LND service", "Starting LND" >>
      ELSE << >>)

\* setup.go: 12 base steps, 4 more with LND
buildStepsCli(c) ==
  << "Creating system user", "Creating directories", "Disabling IPv6",
     "Configuring firewall", "Installing Tor", "Configuring Tor",
     "Adding user to debian-tor group", "Starting Tor",
     "Installing Bitcoin Core 29.2", "Configuring Bitcoin Core",
     "Creating bitcoind service", "Starting Bitcoin Core" >>
  \o (IF c.components = "bitcoin+lnd"
      THEN << "Installing LND 0.20.0-beta", "Configuring LND",
              "Creating LND service", "Starting LND" >>
      ELSE << >>)

\* (mutation) the LND entries are appended whatever cfg.components is
buildStepsTui_lndAlways(c) ==
  << "Creating system user", "Creating directories", "Disabling IPv6",
     "Configuring firewall", "Installing Tor", "Configuring Tor",
     "Adding user to debian-tor group", "Starting Tor",
     "Downloading Bitcoin Core 29.2", "Verifying Bitcoin Core",
     "Installing Bitcoin Core", "Configuring Bitcoin Core",
     "Creating bitcoind service", "Starting Bitcoin Core",
     "Downloading LND 0.20.0-beta", "Verifying LND", "Installing LND",
     "Configuring LND", "Creating LND service", "Starting LND" >>

\* (mutation) the entry that starts bitcoind is listed before the two entries
\* that write its configuration and its service unit
buildStepsTui_startFirst(c) ==
  << "Creating system user", "Creating directories", "Disabling IPv6",
     "Configuring firewall", "Installing Tor", "Configuring Tor",
     "Adding user to debian-tor group", "Starting Tor",
     "Downloading Bitcoin Core 29.2", "Verifying Bitcoin Core",
     "Installing Bitcoin Core", "Starting Bitcoin Core",
     "Configuring Bitcoin Core", "Creating bitcoind service" >>
  \o (IF c.components = "bitcoin+lnd"
      THEN << "Downloading LND 0.20.0-beta", "Verifying LND", "Installing LND",
              "Configuring LND", "Creating LND service", "Starting LND" >>
      ELSE << >>)

\* progress-TUI generation: download / verify / extract are separate steps
buildStepsTui(c) ==
  << "Creating system user", "Creating directories", "Disabling IPv6",
     "Configuring firewall", "Installing Tor", "Configuring Tor",
     "Adding user to debian-tor group", "Starting Tor",
     "Downloading Bitcoin Core 29.2", "Verifying Bitcoin Core",
     "Installing Bitcoin Core", "Configuring Bitcoin Core",
     "Creating bitcoind service", "Starting Bitcoin Core" >>
  \o (IF c.components = "bitcoin+lnd"
      THEN << "Downloading LND 0.20.0-beta", "Verifying LND", "Installing LND",
              "Configuring LND", "Creating LND service", "Starting LND" >>
      ELSE << >>)

buildSteps(v, c) == IF v = "cli" THEN buildStepsCli(c) ELSE buildStepsTui(c)

Components == {"bitcoin", "bitcoin+lnd"}
Configs == [components : Components]
NoConfig == [components |-> "none"]

\* ------------------------------------------------------------ file system
\* /tmp files the artifact steps read and write.  A tarball is "absent" or
\* holds one of Contents; a checksum listing (SHA256SUMS, manifest.txt) is
\* "absent", "empty" (no checksum line) or names the tarball content whose
\* SHA-256 it lists; SHA256SUMS.asc is "absent", "empty" or "sig".
Contents == {"genuine", "other"}
\* what a tarball download delivers.  Whether the tarball matches a listing
\* is all the steps can tell, so the listing's content carries the variation.
TarContents == {"genuine"}
NoFiles == [btcTar |-> "absent", sums |-> "absent", asc |-> "absent",
            lndTar |-> "absent", manifest |-> "absent"]

\* os.Stat(path) succeeds
Exists(f) == f # "absent"

InitSys == [marker |-> FALSE, keyring |-> {}, files |-> NoFiles]

\* /etc/os-release that was not read, or could not be
NoRel == [readable |-> FALSE, lines |-> {}]

\* what one run has done to each artifact family, and what the environment
\* handed to it (history variables, reset when the binary starts); pre is what
\* main found: the effective user and /etc/os-release; prevFailed is the index
\* of the step that failed in the previous invocation (0: none), kept until
\* the first step of this invocation returns
Flags == [btc |-> FALSE, lnd |-> FALSE]
InitObs == [fetched |-> Flags, verified |-> Flags, extracted |-> Flags,
            placed |-> Flags, mismatch |-> Flags,
            keyMismatch |-> FALSE, importRet |-> "none",
            good |-> -1, sigsRet |-> Nil, sigsRun |-> FALSE,
            manifestFailed |-> FALSE, lndSig |-> "unknown",
            markerWrites |-> 0, prevFailed |-> 0,
            pre |-> [checked |-> FALSE, root |-> FALSE, rel |-> NoRel]]

\* the fields that describe the signature check of the call in progress
newCall(o) == [o EXCEPT !.importRet = "none", !.good = -1, !.sigsRet = Nil,
                        !.sigsRun = FALSE]

Out(s, o, e) == [sys |-> s, obs |-> o, err |-> e]

\* download(url, dest): wget -q -O dest url, or curl -sL -o dest url.
\* A successful transfer stores what the server sent.  After a failed one the
\* destination is as it was (curl that could not connect) or was truncated
\* when the tool opened it (wget -O).
downloadOk(files, dest, c) == [files EXCEPT ![dest] = c]
downloadFail(files, dest) == {files, [files EXCEPT ![dest] = "empty"]}

\* (mutation) the exit status of sha256sum is not looked at
sha256sumCheck_ignored(listing, tar) == TRUE

\* sha256sum --ignore-missing --check <listing>, run in /tmp: exit status 0
\* iff the listing has a line for a file that is present and that line's
\* digest is the file's digest.
sha256sumCheck(listing, tar) ==
  /\ listing \in Contents
  /\ tar \in Contents
  /\ listing = tar

\* history: a checksum listing is there and does not list the tarball's digest
Mismatched(listing, tar) == listing \in Contents /\ listing # tar

\* a step that only runs external commands / writes generated text
\* (installTor, restartTor, writeTorConfig, startBitcoind, ...): nil, or the
\* wrapped command error
commandStep(s, o) == {Out(s, o, Nil), Out(s, o, Err("command"))}

\* (mutation) the error of tar is dropped and the binaries are placed anyway
extractAndPlace_tarErrorDropped(s, o, fam, tarF, listF) ==
  LET oP == [o EXCEPT !.placed[fam] = TRUE]
      oX == [oP EXCEPT !.extracted[fam] = TRUE]
      clean == [s EXCEPT !.files[tarF] = "absent", !.files[listF] = "absent"]
  IN  { Out(clean, oP, Nil),
        Out(s, oX, Err("install")),
        Out(clean, oX, Nil) }

\* ------------------------------------------------- extract + place binaries
\* tar -xzf, then install(1) of every binary into /usr/local/bin, then
\* removal of the tarball and the checksum listing
extractAndPlace(s, o, fam, tarF, listF) ==
  LET oX == [o EXCEPT !.extracted[fam] = TRUE]
      oP == [oX EXCEPT !.placed[fam] = TRUE]
      clean == [s EXCEPT !.files[tarF] = "absent", !.files[listF] = "absent"]
  IN  { Out(s, o, Err("extract failed")),
        Out(s, oX, Err("install")),
        Out(clean, oP, Nil) }

\* ------------------------------------------------------- cli: installBitcoin
installBitcoin(s, o) ==
  LET tarFail == { Out([s EXCEPT !.files = f], o, Err("download")) :
                     f \in downloadFail(s.files, "btcTar") }
      withTar(c) == [s EXCEPT !.files = downloadOk(s.files, "btcTar", c)]
      sumsFail(c) == { Out([withTar(c) EXCEPT !.files = f], o, Err("download")) :
                         f \in downloadFail(withTar(c).files, "sums") }
      withSums(c, l) == [withTar(c) EXCEPT !.files = downloadOk(withTar(c).files, "sums", l)]
      oF(c, l) == [o EXCEPT !.fetched.btc = TRUE, !.mismatch.btc = Mismatched(l, c)]
      check(c, l) ==
        IF sha256sumCheck(l, c)
        THEN extractAndPlace(withSums(c, l), [oF(c, l) EXCEPT !.verified.btc = TRUE],
                             "btc", "btcTar", "sums")
        ELSE { Out(withSums(c, l), oF(c, l), Err("checksum verification failed")) }
  IN  tarFail
      \cup UNION { sumsFail(c) : c \in TarContents }
      \cup UNION { check(c, l) : c \in TarContents, l \in Contents }

\* ----------------------------------------------------------- cli: installLND
installLND(s, o) ==
  LET tarFail == { Out([s EXCEPT !.files = f], o, Err("download")) :
                     f \in downloadFail(s.files, "lndTar") }
      withTar(c) == [s EXCEPT !.files = downloadOk(s.files, "lndTar", c)]
      oF == [o EXCEPT !.fetched.lnd = TRUE]
      \* manifest could not be downloaded: warning, no check
      noManifest(c) ==
        UNION { extractAndPlace([withTar(c) EXCEPT !.files = f],
                                [oF EXCEPT !.manifestFailed = TRUE, !.verified.lnd = TRUE],
                                "lnd", "lndTar", "manifest") :
                  f \in downloadFail(withTar(c).files, "manifest") }
      withMan(c, l) == [withTar(c) EXCEPT !.files = downloadOk(withTar(c).files, "manifest", l)]
      oM(c, l, g) == [oF EXCEPT !.lndSig = g, !.mismatch.lnd = Mismatched(l, c)]
      check(c, l, g) ==
        IF sha256sumCheck(l, c)
        THEN extractAndPlace(withMan(c, l), [oM(c, l, g) EXCEPT !.verified.lnd = TRUE],
                             "lnd", "lndTar", "manifest")
        ELSE { Out(withMan(c, l), oM(c, l, g), Err("checksum verification failed")) }
  IN  tarFail
      \cup UNION { noManifest(c) : c \in TarContents }
      \cup UNION { check(c, l, g) : c \in TarContents, l \in Contents, g \in {"good", "bad"} }

\* ------------------------------------------------------------- GPG keyring
\* root's keyring is a set of keys; it outlives the process.
FingerprintOf(key) ==
  IF key = ForeignKey THEN ForeignFingerprint
  ELSE bitcoinCoreSigners[key].fingerprint

\* gpg --batch --list-keys --with-colons <fingerprint>: fails when the keyring
\* has no such key, else prints a record that contains the fingerprint
gpgHasFingerprint(keyring, fingerprint) ==
  \E key \in keyring : FingerprintOf(key) = fingerprint

\* what the key URL of one signer delivers: nothing (download error), the
\* signer's own key, or a key with another fingerprint
KeyOutcome == {"fail", "genuine", "substituted"}

\* the deliveries of one import, one per signer
KeyChoices ==
  { keys \in [Signers -> KeyOutcome] :
      Cardinality({ k \in Signers : keys[k] # "genuine" }) <= MaxKeyFaults }

\* gpg --batch --import keyFile (its exit status is not looked at)
gpgImport(keyring, signer, outcome) ==
  IF outcome = "genuine" THEN keyring \cup {signer}
  ELSE IF outcome = "substituted" THEN keyring \cup {ForeignKey}
  ELSE keyring

\* importBitcoinCoreKeys: the loop from signer k on.  A failed download is
\* skipped; after an import the pinned fingerprint must be in the keyring.
RECURSIVE importBitcoinCoreKeysFrom(_, _, _)
importBitcoinCoreKeysFrom(keyring, keys, k) ==
  IF k > NumSigners THEN [keyring |-> keyring, err |-> Nil, tried |-> {}]
  ELSE IF keys[k] = "fail"
       THEN LET r == importBitcoinCoreKeysFrom(keyring, keys, k + 1)
            IN  [r EXCEPT !.tried = r.tried \cup {k}]
       ELSE LET kr == gpgImport(keyring, k, keys[k])
            IN  IF ~gpgHasFingerprint(kr, bitcoinCoreSigners[k].fingerprint)
                THEN [keyring |-> kr, err |-> Err("key fingerprint mismatch"),
                      tried |-> {k}]
                ELSE LET r == importBitcoinCoreKeysFrom(kr, keys, k + 1)
                     IN  [r EXCEPT !.tried = r.tried \cup {k}]

\* (mutation) a failed key download is returned as an error
importBitcoinCoreKeys_abortOnDownload(keyring, keys) ==
  IF \E k \in Signers : keys[k] = "fail"
  THEN LET f == CHOOSE k \in Signers :
                  keys[k] = "fail" /\ \A j \in 1..(k - 1) : keys[j] # "fail"
           r == importBitcoinCoreKeysFrom(keyring, [k \in Signers |->
                  IF k >= f THEN "genuine" ELSE keys[k]], 1)
       IN  IF r.err # Nil /\ \A k \in r.tried : k < f THEN r
           ELSE [keyring |-> keyring, err |-> Err("download"), tried |-> 1..f]
  ELSE importBitcoinCoreKeysFrom(keyring, keys, 1)

importBitcoinCoreKeys(keyring, keys) == importBitcoinCoreKeysFrom(keyring, keys, 1)

\* --------------------------------------------------- gpg --verify --status-fd
\* The signatures found in SHA256SUMS.asc: for each trusted signer and for the
\* foreign key, none, one gpg reports as good, or one it reports as not good
\* (bad, expired, ...).  gpg can call a signature good only with the key in
\* the keyring.  The status output is a set of words: a good signature gives
\* GOODSIG and VALIDSIG <fingerprint>; a signature that is not good gives
\* BADSIG and KEY_CONSIDERED <fingerprint> (gpg names every key it looked up).
SigOutcome == {"none", "good", "bad"}
SigKeys == Signers \cup {ForeignKey}

SigChoices(keyring, asc) ==
  { sg \in [SigKeys -> SigOutcome] :
      /\ \A key \in SigKeys : sg[key] = "good" => key \in keyring
      /\ asc # "sig" => \A key \in SigKeys : sg[key] = "none"
      /\ sg[ForeignKey] # "bad" }

gpgVerifyOutput(sg) ==
  UNION { IF sg[key] = "good" THEN {"GOODSIG", "VALIDSIG", FingerprintOf(key)}
          ELSE IF sg[key] = "bad" THEN {"BADSIG", "KEY_CONSIDERED", FingerprintOf(key)}
          ELSE {} : key \in SigKeys }

\* strings.Contains(outputStr, word)
Contains(output, word) == word \in output

\* the count of verifyBitcoinCoreSigs
validCount(output) ==
  Cardinality({ i \in Signers :
                  /\ Contains(output, bitcoinCoreSigners[i].fingerprint)
                  /\ Contains(output, "GOODSIG") })

verifyBitcoinCoreSigs(minValid, files, output) ==
  IF ~Exists(files.sums) THEN Err("SHA256SUMS not found")
  ELSE IF ~Exists(files.asc) THEN Err("SHA256SUMS.asc not found")
  ELSE IF validCount(output) < minValid
       THEN [kind |-> "insufficient valid signatures",
             got |-> validCount(output), need |-> minValid]
       ELSE Nil

\* trusted signers whose own signature gpg reported good
goodSigners(sg) == { i \in Signers : sg[i] = "good" }

\* ------------------------------------------------ tui: Bitcoin Core steps
\* downloadBitcoin: the tarball and SHA256SUMS, as installBitcoin fetches them
downloadBitcoin(s, o) ==
  LET tarFail == { Out([s EXCEPT !.files = f], o, Err("download")) :
                     f \in downloadFail(s.files, "btcTar") }
      withTar(c) == [s EXCEPT !.files = downloadOk(s.files, "btcTar", c)]
      sumsFail(c) == { Out([withTar(c) EXCEPT !.files = f], o, Err("download")) :
                         f \in downloadFail(withTar(c).files, "sums") }
      withSums(c, l) == [withTar(c) EXCEPT !.files = downloadOk(withTar(c).files, "sums", l)]
  IN  tarFail
      \cup UNION { sumsFail(c) : c \in TarContents }
      \cup { Out(withSums(c, l), [o EXCEPT !.fetched.btc = TRUE], Nil) :
               c \in TarContents, l \in Contents }

\* verifyBitcoin, first half: ensureGPG, then importBitcoinCoreKeys.
\* err = Nil means the function goes on to the signature check.
verifyBitcoinKeys(s, o) ==
  { Out(s, o, Err("install gpg")) }
  \cup { LET r == importBitcoinCoreKeys(s.keyring, keys)
             imported == { k \in r.tried : keys[k] # "fail" }
         IN  Out([s EXCEPT !.keyring = r.keyring],
                 [o EXCEPT !.keyMismatch = \E k \in imported : keys[k] = "substituted",
                           !.importRet = IF r.err = Nil THEN "ok" ELSE "err"],
                 r.err) :
           keys \in KeyChoices }

\* verifyBitcoin, second half: downloadBitcoinSigFile, verifyBitcoinCoreSigs
\* with the threshold, then the tarball's checksum against SHA256SUMS
verifyBitcoinSigs(s, o) ==
  LET ascFail == { Out([s EXCEPT !.files = f], o, Err("download")) :
                     f \in downloadFail(s.files, "asc") }
      withAsc == [s EXCEPT !.files = downloadOk(s.files, "asc", "sig")]
      after(sg) ==
        LET e  == verifyBitcoinCoreSigs(MinValid, withAsc.files, gpgVerifyOutput(sg))
            oS == [o EXCEPT !.good = Cardinality(goodSigners(sg)),
                            !.sigsRun = TRUE, !.sigsRet = e,
                            !.mismatch.btc = Mismatched(withAsc.files.sums,
                                                        withAsc.files.btcTar)]
        IN  IF e # Nil THEN Out(withAsc, oS, e)
            ELSE IF sha256sumCheck(withAsc.files.sums, withAsc.files.btcTar)
                 THEN Out(withAsc, [oS EXCEPT !.verified.btc = TRUE], Nil)
                 ELSE Out(withAsc, oS, Err("checksum verification failed"))
  IN  ascFail \cup { after(sg) : sg \in SigChoices(withAsc.keyring, "sig") }

extractAndInstallBitcoin(s, o) == extractAndPlace(s, o, "btc", "btcTar", "sums")

\* --------------------------------------------------------- tui: LND steps
\* downloadLND: the tarball (fatal), then the manifest (best effort).  With a
\* manifest comes the fact whether its detached signature by the pinned key
\* is good (lndSig); nothing in the steps looks at it.
downloadLND(s, o) ==
  LET tarFail == { Out([s EXCEPT !.files = f], o, Err("download")) :
                     f \in downloadFail(s.files, "lndTar") }
      withTar(c) == [s EXCEPT !.files = downloadOk(s.files, "lndTar", c)]
      oF == [o EXCEPT !.fetched.lnd = TRUE]
  IN  tarFail
      \cup UNION { { Out([withTar(c) EXCEPT !.files = f],
                         [oF EXCEPT !.manifestFailed = TRUE], Nil) :
                       f \in downloadFail(withTar(c).files, "manifest") } :
                   c \in TarContents }
      \cup { Out([withTar(c) EXCEPT !.files = downloadOk(withTar(c).files, "manifest", l)],
                 [oF EXCEPT !.lndSig = g], Nil) :
               c \in TarContents, l \in Contents, g \in {"good", "bad"} }

verifyLND(s, o) ==
  LET oM == [o EXCEPT !.mismatch.lnd = Mismatched(s.files.manifest, s.files.lndTar)]
  IN  IF ~Exists(s.files.manifest)
      THEN { Out(s, [oM EXCEPT !.verified.lnd = TRUE], Nil) }
      ELSE IF sha256sumCheck(s.files.manifest, s.files.lndTar)
           THEN { Out(s, [oM EXCEPT !.verified.lnd = TRUE], Nil) }
           ELSE { Out(s, oM, Err("checksum failed")) }

extractAndInstallLND(s, o) == extractAndPlace(s, o, "lnd", "lndTar", "manifest")

\* ------------------------------------------------------- step.fn dispatch
\* the closure buildSteps pairs with each name (one-phase steps)
fnOf(name, s, o) ==
  CASE name = "Installing Bitcoin Core 29.2"  -> installBitcoin(s, o)
    [] name = "Installing LND 0.20.0-beta"    -> installLND(s, o)
    [] name = "Downloading Bitcoin Core 29.2" -> downloadBitcoin(s, o)
    [] name = "Installing Bitcoin Core"       -> extractAndInstallBitcoin(s, o)
    [] name = "Downloading LND 0.20.0-beta"   -> downloadLND(s, o)
    [] name = "Verifying LND"                 -> verifyLND(s, o)
    [] name = "Installing LND"                -> extractAndInstallLND(s, o)
    [] OTHER                                  -> commandStep(s, o)

\* =================================================================== state
VARIABLES
  variant,   \* which generation of the installer the binary is
  run,       \* number of the current invocation of the binary
  pc,        \* where main / Run stands
  cfg,       \* the installConfig of this invocation
  steps,     \* names of the steps buildSteps returned
  status,    \* installStep.status, per step
  errs,      \* installStep.err, per step
  current,   \* installModel.current / the loop index of setup.go (1-based)
  done,      \* installModel.done
  failed,    \* installModel.failed
  size,      \* installModel.width, height
  quit,      \* tea.Quit was returned by Update and not yet acted upon
  inflight,  \* the step command (goroutine) that is executing
  msg,       \* the stepDoneMsg on its way to Update
  invoked,   \* history: indices of the steps whose fn was called, in order
  ret,       \* history: what each fn returned
  runErr,    \* what Run returned to main
  sys,       \* the machine: marker file, GPG keyring, /tmp
  obs,       \* history of the artifact handling of this invocation
  call,      \* a function called on its own: its inputs and what it did
  welcome,   \* the Model of the dashboard program (package welcome)
  wizard     \* the tuiModel of the question wizard, and what RunTUI returned

vars == << variant, run, pc, cfg, steps, status, errs, current, done, failed,
           size, quit, inflight, msg, invoked, ret, runErr, sys, obs, call,
           welcome, wizard >>

NoCall == [op |-> "none"]

\* ------------------------------------------------------- welcome: the Model
tabDashboard == 0
tabPairing == 1
tabLogs == 2

\* two generations of the dashboard are in the repository: "v5" quits on q
\* and has a fixed box height, "v6" quits on escape and sizes the box by the
\* terminal height.  logLines is len(m.logLines).
NewModel(gen, hasLND) ==
  [gen |-> gen, hasLND |-> hasLND, shown |-> TRUE, quit |-> FALSE,
   activeTab |-> tabDashboard, logSource |-> "bitcoin", logLines |-> 0,
   logOffset |-> 0, subview |-> "none", width |-> 0, height |-> 0]

\* welcome.Show has not been called
NoWelcome == [NewModel("v5", FALSE) EXCEPT !.shown = FALSE]
\* ------------------------------------------------------ wizard: the tuiModel
phaseQuestions == 0
phaseSummary == 1
phaseConfirmed == 2
phaseCancelled == 3

\* a question is named by its title; these are the values of its options
options(title) ==
  CASE title = "Network" -> << "mainnet", "testnet4" >>
    [] title = "Components" -> << "bitcoin", "bitcoin+lnd" >>
    [] title = "Blockchain Storage (Pruned)" -> << "10", "25", "50" >>
    [] title = "LND P2P Mode" -> << "tor", "hybrid" >>
    [] title = "SSH Port" -> << "22", "custom" >>

buildQuestions == << "Network", "Components", "Blockchain Storage (Pruned)" >>
p2pQuestion == "LND P2P Mode"
sshQuestion == "SSH Port"

\* current and the cursors count from 0 as in the code; quit: Update returned
\* tea.Quit
newTuiModel ==
  LET questions == Append(buildQuestions, sshQuestion) IN
  [questions |-> questions, current |-> 0,
   cursors |-> [i \in 1..Len(questions) |-> 0],
   answers |-> [i \in 1..Len(questions) |-> ""],
   phase |-> phaseQuestions, width |-> 0, height |-> 0, quit |-> FALSE]

Titles == { buildQuestions[i] : i \in 1..Len(buildQuestions) }
            \cup {p2pQuestion, sshQuestion}

\* RunTUI has not been called.  entered: the option on which enter was last
\* pressed, by question; prev: the phase before the last event; result: what
\* RunTUI returned
NoWizard ==
  [started |-> FALSE, m |-> newTuiModel, entered |-> [t \in Titles |-> ""],
   prev |-> phaseQuestions, returned |-> FALSE, result |-> NoConfig]

NoFlight == [index |-> 0, phase |-> "none"]
NoMsg == [index |-> 0, err |-> Nil]
NoRunErr == [step |-> "", err |-> Nil]

WindowSizes == { [width |-> 80, height |-> 24] }
Keys == {"ctrl+c", "enter", "q", "x"}

N == Len(steps)

Init ==
  /\ variant \in {"cli", "tui"}
  /\ run = 1
  /\ pc = "main"
  /\ cfg = NoConfig
  /\ steps = << >>
  /\ status = << >>
  /\ errs = << >>
  /\ current = 1
  /\ done = FALSE
  /\ failed = FALSE
  /\ size = [width |-> 0, height |-> 0]
  /\ quit = FALSE
  /\ inflight = NoFlight
  /\ msg = NoMsg
  /\ invoked = << >>
  /\ ret = << >>
  /\ runErr = NoRunErr
  /\ sys = InitSys
  /\ obs = InitObs
  /\ call = NoCall
  /\ welcome = NoWelcome
  /\ wizard = NoWizard

\* ---------------------------------------------------------------- checkOS
\* /etc/os-release: unreadable, or the set of its lines
OsReleases ==
  { NoRel,
    [readable |-> TRUE, lines |-> {"ID=debian", "VERSION_ID=12"}],
    [readable |-> TRUE, lines |-> {"ID=ubuntu", "ID_LIKE=debian", "VERSION_ID=24.04"}] }

\* (mutation) every readable os-release is accepted
checkOS_anyLinux(rel) ==
  IF ~rel.readable THEN Err("cannot read /etc/os-release") ELSE Nil

checkOS(rel) ==
  IF ~rel.readable THEN Err("cannot read /etc/os-release")
  ELSE IF "ID=debian" \notin rel.lines THEN Err("unsupported OS")
  ELSE Nil

\* ------------------------------------------------------------------ main
\* (mutation) a cancelled wizard is an error of Run
runCancelled_error(answer) == [step |-> "", err |-> Err("cancelled")]

\* what Run returns when the wizard gave no configuration: "Installation
\* cancelled." is printed and Run returns nil (gatherConfig exits with 0)
runCancelled(answer) == NoRunErr

\* main: NeedsInstall, the root check, then Run up to the configuration:
\* checkOS and the question wizard (which the operator may cancel).
Main ==
  /\ pc = "main"
  /\ UNCHANGED << wizard, welcome, call, variant, run, steps, status, errs, current, done, failed,
                  size, quit, inflight, msg, invoked, ret, sys >>
  /\ IF sys.marker
     THEN /\ pc' = "exit"
          /\ UNCHANGED << cfg, runErr, obs >>
     ELSE \E root \in BOOLEAN, rel \in OsReleases,
             answer \in Configs \cup {NoConfig} :
            IF ~root
            THEN /\ pc' = "exit"
                 /\ runErr' = [step |-> "", err |-> Err("not root")]
                 /\ obs' = [obs EXCEPT !.pre = [checked |-> TRUE, root |-> FALSE, rel |-> NoRel]]
                 /\ UNCHANGED cfg
            ELSE IF checkOS(rel) # Nil
            THEN /\ pc' = "exit"
                 /\ runErr' = [step |-> "", err |-> checkOS(rel)]
                 /\ obs' = [obs EXCEPT !.pre = [checked |-> TRUE, root |-> TRUE, rel |-> rel]]
                 /\ UNCHANGED cfg
            ELSE IF answer = NoConfig
            THEN /\ pc' = "exit"
                 /\ runErr' = runCancelled(answer)
                 /\ obs' = [obs EXCEPT !.pre = [checked |-> TRUE, root |-> TRUE, rel |-> rel]]
                 /\ UNCHANGED cfg
            ELSE /\ pc' = "build"
                 /\ cfg' = answer
                 /\ obs' = [obs EXCEPT !.pre = [checked |-> TRUE, root |-> TRUE, rel |-> rel]]
                 /\ UNCHANGED runErr

\* steps := buildSteps(cfg); then either the loop of setup.go starts, or
\* runInstallTUI marks step 0 Running and the program's Init starts runStep(0)
Build ==
  /\ pc = "build"
  /\ LET st == buildSteps(variant, cfg) IN
     /\ steps' = st
     /\ errs' = [i \in 1..Len(st) |-> Nil]
     /\ ret' = [i \in 1..Len(st) |-> "none"]
     /\ current' = 1
     /\ IF variant = "cli"
        THEN /\ pc' = "loop"
             /\ status' = [i \in 1..Len(st) |-> stepPending]
             /\ UNCHANGED << inflight, invoked >>
        ELSE /\ pc' = "steps"
             /\ status' = [i \in 1..Len(st) |-> IF i = 1 THEN stepRunning ELSE stepPending]
             /\ inflight' = [index |-> 1, phase |-> "run"]
             /\ invoked' = << 1 >>
  /\ UNCHANGED << wizard, welcome, call, variant, run, cfg, done, failed, size, quit, msg, runErr, sys, obs >>

\* where Run goes once the steps are through
afterSteps == IF cfg.components = "bitcoin+lnd" THEN "wallet"
              ELSE IF variant = "tui" THEN "shell" ELSE "save"

\* ----------------------------------------------------- cli: the loop of Run
LoopStep ==
  /\ pc = "loop"
  /\ \E o \in fnOf(steps[current], sys, obs) :
       /\ sys' = o.sys
       /\ obs' = [o.obs EXCEPT !.prevFailed = 0]
       /\ invoked' = Append(invoked, current)
       /\ ret' = [ret EXCEPT ![current] = IF o.err = Nil THEN "ok" ELSE "err"]
       /\ IF o.err # Nil
          THEN /\ runErr' = [step |-> steps[current], err |-> o.err]
               /\ pc' = "exit"
               /\ UNCHANGED current
          ELSE /\ UNCHANGED runErr
               /\ IF current < N
                  THEN current' = current + 1 /\ UNCHANGED pc
                  ELSE pc' = afterSteps /\ UNCHANGED current
  /\ UNCHANGED << wizard, welcome, call, variant, run, cfg, steps, status, errs, done, failed, size,
                  quit, inflight, msg >>

\* ------------------------------------------------- tui: the step command
\* The goroutine runStep(index) started: it calls steps[index].fn and sends
\* stepDoneMsg{index, err}.  The message reaches Update only while the
\* progress program runs; the goroutine itself outlives the program and ends
\* with the process.  verifyBitcoin is followed through its two halves.
Return(o) ==
  /\ sys' = o.sys
  /\ obs' = [o.obs EXCEPT !.prevFailed = 0]
  /\ ret' = [ret EXCEPT ![inflight.index] = IF o.err = Nil THEN "ok" ELSE "err"]
  /\ inflight' = NoFlight
  /\ msg' = IF pc = "steps" THEN [index |-> inflight.index, err |-> o.err] ELSE NoMsg

StepFn ==
  /\ inflight.index # 0
  /\ pc # "exit"
  /\ LET name == steps[inflight.index] IN
     IF name = "Verifying Bitcoin Core" /\ inflight.phase = "run"
     THEN \E o \in verifyBitcoinKeys(sys, obs) :
            IF o.err = Nil
            THEN /\ sys' = o.sys
                 /\ obs' = o.obs
                 /\ inflight' = [inflight EXCEPT !.phase = "sigs"]
                 /\ UNCHANGED << ret, msg >>
            ELSE Return(o)
     ELSE IF name = "Verifying Bitcoin Core"
     THEN \E o \in verifyBitcoinSigs(sys, obs) : Return(o)
     ELSE \E o \in fnOf(name, sys, obs) : Return(o)
  /\ UNCHANGED << wizard, welcome, call, variant, run, pc, cfg, steps, status, errs, current, done,
                  failed, size, quit, invoked, runErr >>

\* (mutation) a failed step is recorded but the next step is started anyway
updateStepDone_continue(st, er, cur, dn, fl, m) ==
  IF m.index <= Len(st)
  THEN IF m.index + 1 <= Len(st)
       THEN [status |-> [st EXCEPT ![m.index] = IF m.err # Nil THEN stepFailed ELSE stepDone,
                                   ![m.index + 1] = stepRunning],
             errs |-> [er EXCEPT ![m.index] = m.err], current |-> m.index + 1,
             done |-> dn, failed |-> (fl \/ m.err # Nil), cmd |-> m.index + 1]
       ELSE [status |-> [st EXCEPT ![m.index] = IF m.err # Nil THEN stepFailed ELSE stepDone],
             errs |-> [er EXCEPT ![m.index] = m.err], current |-> cur,
             done |-> TRUE, failed |-> (fl \/ m.err # Nil), cmd |-> 0]
  ELSE [status |-> st, errs |-> er, current |-> cur, done |-> dn,
        failed |-> fl, cmd |-> 0]

\* (mutation) next is computed as index + 2: every other step is skipped
updateStepDone_skip(st, er, cur, dn, fl, m) ==
  IF m.index <= Len(st)
  THEN IF m.err # Nil
       THEN [status |-> [st EXCEPT ![m.index] = stepFailed],
             errs |-> [er EXCEPT ![m.index] = m.err],
             current |-> cur, done |-> TRUE, failed |-> TRUE, cmd |-> 0]
       ELSE IF m.index + 2 <= Len(st)
            THEN [status |-> [st EXCEPT ![m.index] = stepDone,
                                        ![m.index + 2] = stepRunning],
                  errs |-> er, current |-> m.index + 2,
                  done |-> dn, failed |-> fl, cmd |-> m.index + 2]
            ELSE [status |-> [st EXCEPT ![m.index] = stepDone],
                  errs |-> er, current |-> cur,
                  done |-> TRUE, failed |-> fl, cmd |-> 0]
  ELSE [status |-> st, errs |-> er, current |-> cur, done |-> dn,
        failed |-> fl, cmd |-> 0]

\* (mutation) a failed step is put back to Running and its fn called again
updateStepDone_retry(st, er, cur, dn, fl, m) ==
  IF m.index <= Len(st)
  THEN IF m.err # Nil
       THEN IF st[m.index] = stepRunning /\ er[m.index] = Nil
            THEN [status |-> st, errs |-> [er EXCEPT ![m.index] = m.err],
                  current |-> cur, done |-> dn, failed |-> fl, cmd |-> m.index]
            ELSE [status |-> [st EXCEPT ![m.index] = stepFailed],
                  errs |-> [er EXCEPT ![m.index] = m.err],
                  current |-> cur, done |-> TRUE, failed |-> TRUE, cmd |-> 0]
       ELSE IF m.index + 1 <= Len(st)
            THEN [status |-> [st EXCEPT ![m.index] = stepDone,
                                        ![m.index + 1] = stepRunning],
                  errs |-> er, current |-> m.index + 1,
                  done |-> dn, failed |-> fl, cmd |-> m.index + 1]
            ELSE [status |-> [st EXCEPT ![m.index] = stepDone],
                  errs |-> er, current |-> cur,
                  done |-> TRUE, failed |-> fl, cmd |-> 0]
  ELSE [status |-> st, errs |-> er, current |-> cur, done |-> dn,
        failed |-> fl, cmd |-> 0]

\* ----------------------------------------------------- installModel.Update
\* case stepDoneMsg.  The result is the new model and the command: 0 for nil,
\* else the index runStep is started with.
updateStepDone(st, er, cur, dn, fl, m) ==
  IF m.index <= Len(st)
  THEN IF m.err # Nil
       THEN [status |-> [st EXCEPT ![m.index] = stepFailed],
             errs |-> [er EXCEPT ![m.index] = m.err],
             current |-> cur, done |-> TRUE, failed |-> TRUE, cmd |-> 0]
       ELSE IF m.index + 1 <= Len(st)
            THEN [status |-> [st EXCEPT ![m.index] = stepDone,
                                        ![m.index + 1] = stepRunning],
                  errs |-> er, current |-> m.index + 1,
                  done |-> dn, failed |-> fl, cmd |-> m.index + 1]
            ELSE [status |-> [st EXCEPT ![m.index] = stepDone],
                  errs |-> er, current |-> cur,
                  done |-> TRUE, failed |-> fl, cmd |-> 0]
  ELSE [status |-> st, errs |-> er, current |-> cur, done |-> dn,
        failed |-> fl, cmd |-> 0]

UpdateStepDone ==
  /\ pc = "steps"
  /\ msg # NoMsg
  /\ LET r == updateStepDone(status, errs, current, done, failed, msg) IN
     /\ status' = r.status
     /\ errs' = r.errs
     /\ current' = r.current
     /\ done' = r.done
     /\ failed' = r.failed
     /\ IF r.cmd # 0
        THEN /\ inflight' = [index |-> r.cmd, phase |-> "run"]
             /\ invoked' = Append(invoked, r.cmd)
             /\ obs' = newCall(obs)
        ELSE UNCHANGED << inflight, invoked, obs >>
  /\ msg' = NoMsg
  /\ UNCHANGED << wizard, welcome, call, variant, run, pc, cfg, steps, size, quit, ret, runErr, sys >>

\* case tea.KeyMsg: TRUE iff Update returns tea.Quit
updateKey(key, dn) ==
  \/ key = "ctrl+c"
  \/ key = "enter" /\ dn
  \/ key = "q" /\ dn

\* the step state of the installModel Update was called on
stepModel == [status |-> status, errs |-> errs, current |-> current,
              done |-> done, failed |-> failed]

\* (mutation) enter marks the run as done
updateKeyModel_enterDone(m, key) ==
  IF key = "enter" THEN [m EXCEPT !.done = TRUE] ELSE m

\* case tea.KeyMsg: the model Update returns; no branch assigns a field
updateKeyModel(m, key) == m

\* (mutation) enter, before the run is done, starts the current step again
updateKeyCmd_enterRuns(m, key) ==
  IF key = "enter" /\ ~m.done THEN m.current ELSE 0

\* case tea.KeyMsg: the index of the runStep command Update returns, 0 when
\* it returns nil or tea.Quit
updateKeyCmd(m, key) == 0

UpdateKey ==
  /\ pc = "steps"
  /\ \E key \in Keys :
       LET r == updateKeyModel(stepModel, key)
           c == updateKeyCmd(stepModel, key)
       IN
       /\ quit' = (quit \/ updateKey(key, done))
       /\ status' = r.status
       /\ errs' = r.errs
       /\ current' = r.current
       /\ done' = r.done
       /\ failed' = r.failed
       /\ IF c # 0
          THEN /\ inflight' = [index |-> c, phase |-> "run"]
               /\ invoked' = Append(invoked, c)
          ELSE UNCHANGED << inflight, invoked >>
  /\ UNCHANGED << wizard, welcome, call, variant, run, pc, cfg, steps,
                  size, msg, ret, runErr, sys, obs >>

\* (mutation) a resize puts the current step back to Pending
updateWindowSizeModel_reset(m, w) ==
  [m EXCEPT !.status = [i \in DOMAIN m.status |->
                          IF i = m.current THEN stepPending ELSE m.status[i]]]

\* case tea.WindowSizeMsg: the model Update returns, but for width and height
updateWindowSizeModel(m, w) == m

UpdateWindowSize ==
  /\ pc = "steps"
  /\ \E w \in WindowSizes :
       LET r == updateWindowSizeModel(stepModel, w) IN
       /\ size' = w
       /\ status' = r.status
       /\ errs' = r.errs
       /\ current' = r.current
       /\ done' = r.done
       /\ failed' = r.failed
  /\ UNCHANGED << wizard, welcome, call, variant, run, pc, cfg, steps,
                  quit, inflight, msg, invoked, ret, runErr, sys, obs >>

\* ------------------------------------------------ runInstallTUI's return
\* what runInstallTUI makes of the final model: the first Failed step's
\* name and error if final.failed, else nil
firstFailed(st) == CHOOSE i \in 1..Len(st) :
                     /\ st[i] = stepFailed
                     /\ \A j \in 1..(i - 1) : st[j] # stepFailed

\* (mutation) the final model's failed flag is not looked at
installResult_ignored(st, er, names, fl) == NoRunErr

installResult(st, er, names, fl) ==
  IF fl /\ \E i \in 1..Len(st) : st[i] = stepFailed
  THEN [step |-> names[firstFailed(st)], err |-> er[firstFailed(st)]]
  ELSE NoRunErr

\* the program acts on tea.Quit: p.Run returns the model, a message still on
\* its way is dropped, Run continues with runInstallTUI's result.  The final
\* model ends with runInstallTUI; its steps are kept as they were left, its
\* window size is not.
ProgramQuit ==
  /\ pc = "steps"
  /\ quit
  /\ LET r == installResult(status, errs, steps, failed) IN
     /\ runErr' = r
     /\ pc' = IF r # NoRunErr THEN "exit" ELSE afterSteps
  /\ quit' = FALSE
  /\ msg' = NoMsg
  /\ size' = [width |-> 0, height |-> 0]
  /\ UNCHANGED << wizard, welcome, call, variant, run, cfg, steps, status, errs, current, done, failed,
                  inflight, invoked, ret, sys, obs >>

\* -------------------------------------------------- the rest of Run
\* how the auto-unlock part of walletCreationPhase ends: not attempted (no
\* password entered / choice 2), configured, or setupAutoUnlock failed
UnlockOutcomes == {"skipped", "ok", "failed"}

\* (mutation) the error of setupAutoUnlock is returned
walletCreationPhase_unlockFatal(ready, created, unlock) ==
  IF ~ready THEN Err("LND not ready")
  ELSE IF ~created THEN Err("lncli create failed")
  ELSE IF unlock = "failed" THEN Err("auto-unlock setup failed")
  ELSE Nil

\* walletCreationPhase: waitForLND, then lncli create; a failure of either
\* is returned, a failure of the auto-unlock setup is only printed
walletCreationPhase(ready, created, unlock) ==
  IF ~ready THEN Err("LND not ready")
  ELSE IF ~created THEN Err("lncli create failed")
  ELSE Nil

WalletCreationPhase ==
  /\ pc = "wallet"
  /\ \E ready \in BOOLEAN, created \in BOOLEAN, unlock \in UnlockOutcomes :
       LET e == walletCreationPhase(ready, created, unlock) IN
       IF e # Nil
       THEN pc' = "exit" /\ runErr' = [step |-> "", err |-> e]
       ELSE pc' = (IF variant = "tui" THEN "shell" ELSE "save") /\ UNCHANGED runErr
  /\ UNCHANGED << wizard, welcome, call, variant, run, cfg, steps, status, errs, current, done, failed,
                  size, quit, inflight, msg, invoked, ret, sys, obs >>

\* (mutation) the error of setupShellEnvironment is returned by Run
shellSetupResult_fatal(shellOk) ==
  IF shellOk THEN Nil ELSE Err("shell setup failed")

\* what Run makes of setupShellEnvironment's error: a warning is printed
shellSetupResult(shellOk) == Nil

\* setupShellEnvironment appends to /home/ripsline/.bashrc
SetupShellEnvironment ==
  /\ pc = "shell"
  /\ \E shellOk \in BOOLEAN :
       LET e == shellSetupResult(shellOk) IN
       IF e # Nil
       THEN pc' = "exit" /\ runErr' = [step |-> "", err |-> e]
       ELSE pc' = "save" /\ UNCHANGED runErr
  /\ UNCHANGED << wizard, welcome, call, variant, run, cfg, steps, status, errs, current, done, failed,
                  size, quit, inflight, msg, invoked, ret, sys, obs >>

\* config.Save: writes /etc/rlvpn/config.json, the marker NeedsInstall looks for
saveResult(saveOk) == IF saveOk THEN Nil ELSE Err("save config")

Save ==
  /\ pc = "save"
  /\ pc' = "exit"
  /\ \E ok \in BOOLEAN :
       IF ok
       THEN /\ sys' = [sys EXCEPT !.marker = TRUE]
            /\ obs' = [obs EXCEPT !.markerWrites = @ + 1]
            /\ UNCHANGED runErr
       ELSE /\ runErr' = [step |-> "", err |-> saveResult(ok)]
            /\ UNCHANGED << sys, obs >>
  /\ UNCHANGED << wizard, welcome, call, variant, run, cfg, steps, status, errs, current, done, failed,
                  size, quit, inflight, msg, invoked, ret >>

\* the step this invocation ended on as failed: the step Update marked Failed,
\* or the step whose error the loop of setup.go returned; 0 when there is none
FailedStep ==
  IF variant = "tui"
  THEN IF \E i \in 1..N : status[i] = stepFailed THEN firstFailed(status) ELSE 0
  ELSE IF \E i \in 1..N : ret[i] = "err"
       THEN CHOOSE i \in 1..N : ret[i] = "err"
       ELSE 0

\* the process has ended and the operator invokes the binary again
Restart ==
  /\ pc = "exit"
  /\ run < MaxRuns
  /\ run' = run + 1
  /\ pc' = "main"
  /\ cfg' = NoConfig
  /\ steps' = << >>
  /\ status' = << >>
  /\ errs' = << >>
  /\ current' = 1
  /\ done' = FALSE
  /\ failed' = FALSE
  /\ size' = [width |-> 0, height |-> 0]
  /\ quit' = FALSE
  /\ inflight' = NoFlight
  /\ msg' = NoMsg
  /\ invoked' = << >>
  /\ ret' = << >>
  /\ runErr' = NoRunErr
  /\ obs' = [InitObs EXCEPT !.prevFailed = FailedStep]
  /\ UNCHANGED << wizard, welcome, call, variant, sys >>

Next ==
  \/ Main
  \/ Build
  \/ LoopStep
  \/ StepFn
  \/ UpdateStepDone
  \/ UpdateKey
  \/ UpdateWindowSize
  \/ ProgramQuit
  \/ WalletCreationPhase
  \/ SetupShellEnvironment
  \/ Save
  \/ Restart

Spec == Init /\ [][Next]_vars

\* ================================================= functions on their own
\* The functions below are called with every input the wizards and the
\* machine can hand them; `call` records the input and what the function did.

\* ---------------------------------------------- gatherConfig / RunTUI
Networks == {"mainnet", "testnet4"}
PruneSizes == {10, 25, 50}

\* gatherConfig reads a custom port with Sscanf("%d"); RunTUI leaves 22 when
\* "custom" is selected
SshPorts(v) == IF v = "cli" THEN {22, 2222, 9735} ELSE {22}

\* the installConfig values a wizard returns: p2pMode is "tor" unless LND was
\* selected
InstallConfigs(v) ==
  { c \in [network : Networks, components : Components, pruneSize : PruneSizes,
           p2pMode : {"tor", "hybrid"}, sshPort : SshPorts(v)] :
      c.components = "bitcoin" => c.p2pMode = "tor" }

\* ------------------------------------------------------ configureFirewall
\* fmt.Sprintf("%d/tcp", port)
PortTcp(port) == ToString(port) \o "/tcp"

\* (mutation) 9735 is opened whenever LND is selected, whatever the p2p mode
ufwCommands_alwaysP2P(c) ==
  << << "ufw", "default", "deny", "incoming" >>,
     << "ufw", "default", "allow", "outgoing" >>,
     << "ufw", "allow", PortTcp(c.sshPort) >> >>
  \o (IF c.components = "bitcoin+lnd"
      THEN << << "ufw", "allow", "9735/tcp" >> >>
      ELSE << >>)
  \o << << "ufw", "--force", "enable" >> >>

\* the argv list the function builds
ufwCommands(c) ==
  << << "ufw", "default", "deny", "incoming" >>,
     << "ufw", "default", "allow", "outgoing" >>,
     << "ufw", "allow", PortTcp(c.sshPort) >> >>
  \o (IF c.components = "bitcoin+lnd" /\ c.p2pMode = "hybrid"
      THEN << << "ufw", "allow", "9735/tcp" >> >>
      ELSE << >>)
  \o << << "ufw", "--force", "enable" >> >>

\* /etc/default/ufw as the function found it
UfwDefaults == {"absent", "IPV6=yes", "IPV6=no"}

\* (mutation) the loop goes on after a command has failed
configureFirewall_continue(c, aptOk, ufwDefault, failAt) ==
  IF ~aptOk
  THEN [issued |-> << >>, ufwDefault |-> ufwDefault, err |-> Err("install ufw"),
        args |-> << >>]
  ELSE LET cmds == ufwCommands(c)
           file == IF ufwDefault = "IPV6=yes" THEN "IPV6=no" ELSE ufwDefault
       IN  IF failAt \in 1..Len(cmds)
           THEN [issued |-> cmds, ufwDefault |-> file,
                 err |-> Err("ufw"), args |-> cmds[failAt]]
           ELSE [issued |-> cmds, ufwDefault |-> file, err |-> Nil,
                 args |-> << >>]

\* aptOk: apt-get install ufw succeeded; failAt: index of the first command
\* that fails, 0 when none does.  issued: the commands that were executed;
\* args: the command the returned error names.
configureFirewall(c, aptOk, ufwDefault, failAt) ==
  IF ~aptOk
  THEN [issued |-> << >>, ufwDefault |-> ufwDefault, err |-> Err("install ufw"),
        args |-> << >>]
  ELSE LET cmds == ufwCommands(c)
           file == IF ufwDefault = "IPV6=yes" THEN "IPV6=no" ELSE ufwDefault
       IN  IF failAt \in 1..Len(cmds)
           THEN [issued |-> SubSeq(cmds, 1, failAt), ufwDefault |-> file,
                 err |-> Err("ufw"), args |-> cmds[failAt]]
           ELSE [issued |-> cmds, ufwDefault |-> file, err |-> Nil,
                 args |-> << >>]

\* ------------------------------------------------------- createSystemUser
\* (mutation) adduser is run without looking the user up first
createSystemUser_noLookup(exists, adduserOk) ==
  IF adduserOk /\ ~exists
  THEN [exists |-> TRUE, adduser |-> TRUE, err |-> Nil]
  ELSE [exists |-> exists, adduser |-> TRUE, err |-> Err("adduser")]

\* exists: user.Lookup finds the user; adduserOk: adduser would succeed
createSystemUser(exists, adduserOk) ==
  IF exists
  THEN [exists |-> TRUE, adduser |-> FALSE, err |-> Nil]
  ELSE IF adduserOk
       THEN [exists |-> TRUE, adduser |-> TRUE, err |-> Nil]
       ELSE [exists |-> FALSE, adduser |-> TRUE, err |-> Err("adduser")]

\* ------------------------------------------------- Run after the pipeline
\* Run from the point where the steps have returned without error: the wallet
\* phase when LND is selected, setupShellEnvironment (progress program only),
\* config.Save.  marker: /etc/rlvpn/config.json was written; warnings: the
\* failures that were only printed.
runTail(v, components, ready, created, unlock, shellOk, saveOk) ==
  LET lnd == components = "bitcoin+lnd"
      w == IF lnd THEN walletCreationPhase(ready, created, unlock) ELSE Nil
      unlockWarn == IF lnd /\ ready /\ created /\ unlock = "failed"
                    THEN {"auto-unlock setup failed"} ELSE {}
      sh == IF v = "tui" THEN shellSetupResult(shellOk) ELSE Nil
      shellWarn == IF v = "tui" /\ ~shellOk THEN {"shell setup failed"} ELSE {}
  IN  IF w # Nil THEN [err |-> w, marker |-> FALSE, warnings |-> {}]
      ELSE IF sh # Nil THEN [err |-> sh, marker |-> FALSE, warnings |-> unlockWarn]
      ELSE [err |-> saveResult(saveOk), marker |-> saveOk,
            warnings |-> unlockWarn \cup shellWarn]

\* ------------------------------------------------------------- waitForLND
\* the number of times the loop asks https://localhost:8080/v1/state
waitAttempts == 60

\* the loop from iteration i on (i counts from 0); up: the number of the
\* first request LND answers.  attempts: the requests that were made.
RECURSIVE waitLoop(_, _)
waitLoop(i, up) ==
  IF i < waitAttempts
  THEN IF i + 1 >= up
       THEN [attempts |-> i + 1, err |-> Nil]
       ELSE waitLoop(i + 1, up)
  ELSE [attempts |-> i, err |-> Err("LND did not respond after 120 seconds")]

waitForLND(up) == waitLoop(0, up)

\* LND answers the first request, a later one, the last one, or none of them
UpAt == 1..(waitAttempts + 2)

\* ------------------------------------------------------------ the calls
\* one function is called per behaviour; createSystemUser may be called again
progVars == << variant, run, pc, cfg, steps, status, errs, current, done,
               failed, size, quit, inflight, msg, invoked, ret, runErr, sys, obs >>

CallBuildSteps ==
  /\ call = NoCall
  /\ \E c \in InstallConfigs(variant) :
       call' = [op |-> "buildSteps", cfg |-> c, steps |-> buildSteps(variant, c)]
  /\ UNCHANGED << progVars, welcome, wizard >>

CallConfigureFirewall ==
  /\ call = NoCall
  /\ \E c \in InstallConfigs(variant), aptOk \in BOOLEAN, u \in UfwDefaults :
       \E failAt \in 0..Len(ufwCommands(c)) :
         call' = [op |-> "configureFirewall", cfg |-> c,
                  res |-> configureFirewall(c, aptOk, u, failAt)]
  /\ UNCHANGED << progVars, welcome, wizard >>

\* the step is run on a machine with or without the user; a call that follows
\* another call of the step finds the machine as that call left it
CallCreateSystemUser ==
  /\ call.op \in {"none", "createSystemUser"}
  /\ \E fresh \in BOOLEAN, adduserOk \in BOOLEAN :
       LET again == call.op = "createSystemUser"
           before == IF again THEN call.res.exists ELSE fresh
       IN  call' = [op |-> "createSystemUser", before |-> before,
                    again |-> again,
                    prevErr |-> IF again THEN call.res.err ELSE Nil,
                    res |-> createSystemUser(before, adduserOk)]
  /\ UNCHANGED << progVars, welcome, wizard >>

CallImportBitcoinCoreKeys ==
  /\ call = NoCall
  /\ \E keyring \in {{}, Signers}, keys \in [Signers -> KeyOutcome] :
       call' = [op |-> "importBitcoinCoreKeys", keyring |-> keyring,
                keys |-> keys, res |-> importBitcoinCoreKeys(keyring, keys)]
  /\ UNCHANGED << progVars, welcome, wizard >>

CallVerifyBitcoinCoreSigs ==
  /\ call = NoCall
  /\ \E sg \in SigChoices(SigKeys, "sig"), sums \in {"absent", "genuine"},
        asc \in {"absent", "sig"} :
       LET files == [NoFiles EXCEPT !.sums = sums, !.asc = asc]
           output == IF Exists(sums) /\ Exists(asc) THEN gpgVerifyOutput(sg) ELSE {}
       IN  call' = [op |-> "verifyBitcoinCoreSigs", sg |-> sg, files |-> files,
                    count |-> validCount(output),
                    err |-> verifyBitcoinCoreSigs(MinValid, files, output)]
  /\ UNCHANGED << progVars, welcome, wizard >>

CallRunTail ==
  /\ call = NoCall
  /\ \E c \in Components, ready \in BOOLEAN, created \in BOOLEAN,
        unlock \in UnlockOutcomes, shellOk \in BOOLEAN, saveOk \in BOOLEAN :
       call' = [op |-> "runTail", components |-> c,
                walletOk |-> (c = "bitcoin+lnd" => ready /\ created),
                unlockFailed |-> (c = "bitcoin+lnd" /\ ready /\ created /\ unlock = "failed"),
                shellFailed |-> (variant = "tui" /\ ~shellOk),
                saveOk |-> saveOk,
                res |-> runTail(variant, c, ready, created, unlock, shellOk, saveOk)]
  /\ UNCHANGED << progVars, welcome, wizard >>

\* walletCreationPhase with LND answering from request `up` on, then the rest
\* of Run
CallWaitForLND ==
  /\ call = NoCall
  /\ \E up \in UpAt, created \in BOOLEAN :
       LET w == waitForLND(up) IN
       call' = [op |-> "waitForLND", up |-> up, created |-> created, res |-> w,
                tail |-> runTail(variant, "bitcoin+lnd", w.err = Nil, created,
                                 "ok", TRUE, TRUE)]
  /\ UNCHANGED << progVars, welcome, wizard >>

NextCalls ==
  \/ CallWaitForLND
  \/ CallBuildSteps
  \/ CallConfigureFirewall
  \/ CallCreateSystemUser
  \/ CallImportBitcoinCoreKeys
  \/ CallVerifyBitcoinCoreSigs
  \/ CallRunTail

SpecCalls == Init /\ [][NextCalls]_vars

\* ============================================================ the dashboard
\* main calls welcome.Show when the marker exists; the program then handles
\* key and resize events until a key makes Update return tea.Quit.
wBoxHeight == 22

Subviews == {"none", "zeus", "sparrow", "macaroon", "qr"}
LogSources == {"tor", "bitcoin", "lnd"}

\* boxHeight: the terminal height minus 12, kept within 10..30
boxHeight(m) ==
  LET h == m.height - 12
  IN  IF h < 10 THEN 10 ELSE IF h > 30 THEN 30 ELSE h

\* logsVisible: how many log lines fit in the box
logsVisible(m) ==
  LET v == boxHeight(m) - 2
  IN  IF v < 5 THEN 5 ELSE v

\* the largest scroll offset "up" moves to
maxOffset(m) ==
  LET d == IF m.gen = "v5" THEN m.logLines - wBoxHeight + 3
           ELSE m.logLines - logsVisible(m)
  IN  IF d < 0 THEN 0 ELSE d

\* (mutation) backspace on the QR screen goes to the macaroon screen
subviewBack_qrToMacaroon(subview) ==
  IF subview = "qr" THEN "macaroon"
  ELSE IF subview = "macaroon" THEN "zeus"
  ELSE "none"

\* case "backspace": QR and macaroon go back to Zeus, Zeus and Sparrow to the
\* main screen
subviewBack(subview) ==
  IF subview \in {"qr", "macaroon"} THEN "zeus" ELSE "none"

\* the keys on which Update returns tea.Quit
quitKey(m, key) ==
  IF m.gen = "v5" THEN key \in {"q", "ctrl+c"} ELSE key \in {"escape", "ctrl+c"}

\* the key that fetches the log of the current source again
refreshKey(m) == IF m.gen = "v5" THEN "R" ELSE "r"

\* Update, case tea.KeyMsg, while a subview is shown
updateSubview(m, key) ==
  IF key = "backspace" THEN [m EXCEPT !.subview = subviewBack(m.subview)]
  ELSE IF key = "m" /\ m.subview = "zeus" /\ m.hasLND
       THEN [m EXCEPT !.subview = "macaroon"]
  ELSE IF key = "r" /\ m.subview = "zeus" /\ m.hasLND
       THEN [m EXCEPT !.subview = "qr"]
  ELSE m

\* Update, case tea.KeyMsg, on the main screen; fetched is the number of lines
\* fetchLogLines returns when it is called
updateMain(m, key, fetched) ==
  LET logs == m.activeTab = tabLogs IN
  CASE key \in {"tab", "right"} ->
         [m EXCEPT !.activeTab = IF @ = tabLogs THEN tabDashboard ELSE @ + 1]
    [] key \in {"shift+tab", "left"} ->
         [m EXCEPT !.activeTab = IF @ = tabDashboard THEN tabLogs ELSE @ - 1]
    [] key = "1" -> [m EXCEPT !.activeTab = tabDashboard]
    [] key = "2" -> [m EXCEPT !.activeTab = tabPairing]
    [] key = "3" -> [m EXCEPT !.activeTab = tabLogs]
    [] key = "z" -> IF m.activeTab = tabPairing /\ m.hasLND
                    THEN [m EXCEPT !.subview = "zeus"] ELSE m
    [] key = "s" -> IF m.activeTab = tabPairing
                    THEN [m EXCEPT !.subview = "sparrow"] ELSE m
    [] key = "t" -> IF logs
                    THEN [m EXCEPT !.logSource = "tor", !.logLines = fetched,
                                   !.logOffset = 0]
                    ELSE m
    [] key = "b" -> IF logs
                    THEN [m EXCEPT !.logSource = "bitcoin", !.logLines = fetched,
                                   !.logOffset = 0]
                    ELSE m
    [] key = "l" -> IF logs /\ m.hasLND
                    THEN [m EXCEPT !.logSource = "lnd", !.logLines = fetched,
                                   !.logOffset = 0]
                    ELSE m
    [] key \in {"up", "k"} ->
         IF logs /\ m.logOffset < maxOffset(m)
         THEN [m EXCEPT !.logOffset = @ + 1] ELSE m
    [] key \in {"down", "j"} ->
         IF logs /\ m.logOffset > 0
         THEN [m EXCEPT !.logOffset = @ - 1] ELSE m
    [] key = refreshKey(m) ->
         IF logs THEN [m EXCEPT !.logLines = fetched, !.logOffset = 0] ELSE m
    [] OTHER -> m

\* Model.Update, case tea.KeyMsg
welcomeUpdateKey(m, key, fetched) ==
  IF m.gen = "v6" /\ quitKey(m, key) THEN [m EXCEPT !.quit = TRUE]
  ELSE IF m.subview # "none"
       THEN IF quitKey(m, key) THEN [m EXCEPT !.quit = TRUE]
            ELSE updateSubview(m, key)
  ELSE IF quitKey(m, key) THEN [m EXCEPT !.quit = TRUE]
  ELSE updateMain(m, key, fetched)

\* Model.Update, case tea.WindowSizeMsg
welcomeUpdateSize(m, w) == [m EXCEPT !.width = w.width, !.height = w.height]

WelcomeKeys ==
  {"backspace", "q", "ctrl+c", "escape", "m", "r", "R", "tab", "right",
   "shift+tab", "left", "1", "2", "3", "z", "s", "t", "b", "l",
   "up", "k", "down", "j", "x"}

\* what journalctl -n 200 delivers, as a number of lines (at least the one
\* line fetchLogLines makes up when there is no output)
LogCounts == {1, 11, 21}

TermSizes == { [width |-> 80, height |-> 24], [width |-> 120, height |-> 50] }

\* config.Load (or config.Default), then welcome.Show
Show ==
  /\ ~welcome.shown
  /\ \E gen \in {"v5", "v6"}, hasLND \in BOOLEAN :
       welcome' = NewModel(gen, hasLND)
  /\ UNCHANGED << progVars, call, wizard >>

WelcomeKey ==
  /\ welcome.shown
  /\ ~welcome.quit
  /\ \E key \in WelcomeKeys, fetched \in LogCounts :
       welcome' = welcomeUpdateKey(welcome, key, fetched)
  /\ UNCHANGED << progVars, call, wizard >>

WelcomeResize ==
  /\ welcome.shown
  /\ ~welcome.quit
  /\ \E w \in TermSizes : welcome' = welcomeUpdateSize(welcome, w)
  /\ UNCHANGED << progVars, call, wizard >>

NextWelcome ==
  \/ Show
  \/ WelcomeKey
  \/ WelcomeResize

SpecWelcome == Init /\ [][NextWelcome]_vars

\* =============================================================== the wizard
\* RunTUI runs a program over tuiModel; Update handles key and resize events
\* until it returns tea.Quit, and RunTUI turns the final model into the
\* installConfig.
At(seq, i) == seq[i + 1]

Remove(seq, i) == SubSeq(seq, 1, i - 1) \o SubSeq(seq, i + 1, Len(seq))

hasP2P(m) == \E i \in 1..Len(m.questions) : m.questions[i] = "LND P2P Mode"

\* (mutation) the P2P question is removed without its cursor and its answer
handleComponentChoice_questionOnly(m) ==
  IF At(m.answers, 1) = "bitcoin+lnd" /\ ~hasP2P(m)
  THEN [m EXCEPT !.questions = SubSeq(@, 1, 3) \o << p2pQuestion >>
                                 \o SubSeq(@, 4, Len(@)),
                 !.cursors = @ \o << 0 >>,
                 !.answers = @ \o << "" >>]
  ELSE IF At(m.answers, 1) = "bitcoin" /\ hasP2P(m)
  THEN LET i == CHOOSE j \in 1..Len(m.questions) :
                  /\ m.questions[j] = "LND P2P Mode"
                  /\ \A k \in 1..(j - 1) : m.questions[k] # "LND P2P Mode"
       IN  [m EXCEPT !.questions = Remove(@, i)]
  ELSE m

\* the P2P question is inserted at index 3; copy() into the longer slices
\* leaves the old cursors and answers at their indices and a zero value at
\* the end
handleComponentChoice(m) ==
  IF At(m.answers, 1) = "bitcoin+lnd" /\ ~hasP2P(m)
  THEN [m EXCEPT !.questions = SubSeq(@, 1, 3) \o << p2pQuestion >>
                                 \o SubSeq(@, 4, Len(@)),
                 !.cursors = @ \o << 0 >>,
                 !.answers = @ \o << "" >>]
  ELSE IF At(m.answers, 1) = "bitcoin" /\ hasP2P(m)
  THEN LET i == CHOOSE j \in 1..Len(m.questions) :
                  /\ m.questions[j] = "LND P2P Mode"
                  /\ \A k \in 1..(j - 1) : m.questions[k] # "LND P2P Mode"
       IN  [m EXCEPT !.questions = Remove(@, i),
                     !.cursors = Remove(@, i),
                     !.answers = Remove(@, i)]
  ELSE m

\* the option value under the cursor of the current question
selected(m) == At(options(At(m.questions, m.current)), At(m.cursors, m.current))

handleEnter(m) ==
  IF m.phase = phaseSummary
  THEN [m EXCEPT !.phase = phaseConfirmed, !.quit = TRUE]
  ELSE IF m.phase # phaseQuestions THEN m
  ELSE LET a == [m EXCEPT !.answers[m.current + 1] = selected(m)]
           b == IF m.current = 1 THEN handleComponentChoice(a) ELSE a
       IN  IF b.current < Len(b.questions) - 1
           THEN [b EXCEPT !.current = @ + 1]
           ELSE [b EXCEPT !.phase = phaseSummary]

\* tuiModel.Update, case tea.KeyMsg
tuiUpdateKey(m, key) ==
  IF key \in {"ctrl+c", "escape"}
  THEN [m EXCEPT !.phase = phaseCancelled, !.quit = TRUE]
  ELSE IF key \in {"up", "k"}
  THEN IF m.phase = phaseQuestions /\ At(m.cursors, m.current) > 0
       THEN [m EXCEPT !.cursors[m.current + 1] = @ - 1]
       ELSE m
  ELSE IF key \in {"down", "j"}
  THEN IF /\ m.phase = phaseQuestions
          /\ At(m.cursors, m.current) < Len(options(At(m.questions, m.current))) - 1
       THEN [m EXCEPT !.cursors[m.current + 1] = @ + 1]
       ELSE m
  ELSE IF key = "enter" THEN handleEnter(m)
  ELSE IF key = "backspace"
  THEN IF m.phase = phaseQuestions /\ m.current > 0
       THEN [m EXCEPT !.current = @ - 1]
       ELSE IF m.phase = phaseSummary
       THEN [m EXCEPT !.phase = phaseQuestions, !.current = Len(m.questions) - 1]
       ELSE m
  ELSE m

\* tuiModel.Update, case tea.WindowSizeMsg
tuiUpdateSize(m, w) == [m EXCEPT !.width = w.width, !.height = w.height]

\* the answer getResult finds for a title: that of the last question with this
\* title whose answer is not empty, the default when there is none
answerOf(m, title, default) ==
  LET idx == { i \in 1..Len(m.questions) :
                 /\ m.questions[i] = title
                 /\ i <= Len(m.answers)
                 /\ m.answers[i] # "" }
  IN  IF idx = {} THEN default
      ELSE m.answers[CHOOSE i \in idx : \A j \in idx : j <= i]

getResult(m) ==
  [network |-> answerOf(m, "Network", "testnet4"),
   components |-> answerOf(m, "Components", "bitcoin+lnd"),
   pruneSize |-> answerOf(m, "Blockchain Storage (Pruned)", "25"),
   p2pMode |-> answerOf(m, "LND P2P Mode", "tor"),
   sshPort |-> answerOf(m, "SSH Port", "22")]

\* fmt.Sscanf(s, "%d", &v) on the option values: v keeps its value when s does
\* not start with a number
Sscanf(s, v) ==
  CASE s = "10" -> 10
    [] s = "22" -> 22
    [] s = "25" -> 25
    [] s = "50" -> 50
    [] OTHER -> v

\* the Name of the NetworkConfig the function returns
NetworkConfigFromName(name) == IF name = "mainnet" THEN "mainnet" ELSE "testnet4"

\* what detectPublicIP returns; "" when no address was found
PublicIPs == {"", "203.0.113.7"}

\* RunTUI from the final model on; NoConfig is the nil configuration
RunTUI(final, ip) ==
  IF final.phase = phaseCancelled THEN NoConfig
  ELSE LET r == getResult(final) IN
       [network |-> NetworkConfigFromName(r.network),
        components |-> r.components,
        pruneSize |-> Sscanf(r.pruneSize, 0),
        p2pMode |-> IF r.p2pMode = "hybrid" /\ ip = "" THEN "tor" ELSE r.p2pMode,
        sshPort |-> IF r.sshPort # "custom" THEN Sscanf(r.sshPort, 22) ELSE 22,
        publicIPv4 |-> IF r.p2pMode = "hybrid" THEN ip ELSE ""]

WizardKeys == {"ctrl+c", "escape", "up", "k", "down", "j", "enter",
               "backspace", "x"}

\* RunTUI: newTuiModel and the start of the program
WizardStart ==
  /\ ~wizard.started
  /\ wizard' = [NoWizard EXCEPT !.started = TRUE]
  /\ UNCHANGED << progVars, call, welcome >>

WizardKey ==
  /\ wizard.started
  /\ ~wizard.m.quit
  /\ \E key \in WizardKeys :
       LET m == wizard.m
           q == At(m.questions, m.current)
       IN  wizard' = [wizard EXCEPT
                        !.m = tuiUpdateKey(m, key),
                        !.prev = m.phase,
                        !.entered = IF key = "enter" /\ m.phase = phaseQuestions
                                    THEN [@ EXCEPT ![q] = selected(m)]
                                    ELSE @]
  /\ UNCHANGED << progVars, call, welcome >>

WizardResize ==
  /\ wizard.started
  /\ ~wizard.m.quit
  /\ \E w \in TermSizes :
       wizard' = [wizard EXCEPT !.m = tuiUpdateSize(@, w), !.prev = wizard.m.phase]
  /\ UNCHANGED << progVars, call, welcome >>

\* p.Run returned the final model
WizardReturn ==
  /\ wizard.started
  /\ wizard.m.quit
  /\ ~wizard.returned
  /\ \E ip \in PublicIPs :
       wizard' = [wizard EXCEPT !.returned = TRUE, !.result = RunTUI(wizard.m, ip)]
  /\ UNCHANGED << progVars, call, welcome >>

NextWizard ==
  \/ WizardStart
  \/ WizardKey
  \/ WizardResize
  \/ WizardReturn

SpecWizard == Init /\ [][NextWizard]_vars

\* ================================================================ properties
\* the steps phase of this invocation is over
Ended == pc \notin {"main", "build", "steps", "loop"}

InvokedSet == { invoked[k] : k \in DOMAIN invoked }

StepsNamed(names) == { i \in 1..N : steps[i] \in names }

Families == {"btc", "lnd"}

\* the steps that fetch / that verify an artifact family, in both generations
FetchSteps(fam) ==
  StepsNamed(IF fam = "btc" THEN {"Downloading Bitcoin Core 29.2"}
             ELSE {"Downloading LND 0.20.0-beta"})
VerifySteps(fam) ==
  StepsNamed(IF fam = "btc"
             THEN {"Installing Bitcoin Core 29.2", "Verifying Bitcoin Core"}
             ELSE {"Installing LND 0.20.0-beta", "Verifying LND"})

C2_Order ==
  /\ N > 0 => steps = buildSteps(variant, cfg)
  /\ \A k \in DOMAIN invoked :
       /\ invoked[k] = k
       /\ \A j \in 1..(k - 1) : ret[j] = "ok"

\* the last of the 20 steps has been invoked
C2_Witness ==
  /\ variant = "tui"
  /\ cfg.components = "bitcoin+lnd"
  /\ N = 20
  /\ Len(invoked) = N

\* ---------------------------------------------------------------------- C3
StatusMove(a, b) ==
  \/ a = b
  \/ a = stepPending /\ b = stepRunning
  \/ a = stepRunning /\ b \in {stepDone, stepFailed}

C3_Inv ==
  variant = "tui" =>
    \A i \in 1..N :
      /\ status[i] \in {stepPending, stepRunning, stepDone, stepFailed}
      /\ (i \in InvokedSet) <=> (status[i] # stepPending)
      /\ status[i] = stepDone => ret[i] = "ok" /\ errs[i] = Nil
      /\ status[i] = stepFailed => ret[i] = "err" /\ errs[i] # Nil
      /\ Cardinality({ k \in DOMAIN invoked : invoked[k] = i }) <= 1

C3_Moves ==
  [][ (variant = "tui" /\ pc' # "main") =>
        \A i \in (DOMAIN status) \cap (DOMAIN status') :
          StatusMove(status[i], status'[i]) ]_vars

\* C3: in the progress program a step's status only moves Pending -> Running
\* -> Succeeded or Failed; a step is not Pending when its fn is invoked; it is
\* Succeeded or Failed (with the error stored) only when its fn has returned
\* nil or an error; no status is left once Succeeded or Failed; no fn is
\* invoked twice.
C3_Status == []C3_Inv /\ C3_Moves

\* one step Succeeded and the next one Failed
C3_Witness ==
  /\ variant = "tui"
  /\ \E i \in 2..N : status[i] = stepFailed /\ status[i - 1] = stepDone

\* ---------------------------------------------------------------------- C4
\* C4 as stated: the marker is written at most once per run and only when
\* every step of the pipeline has Succeeded.
C4_MarkerOnlyAfterSuccess ==
  /\ obs.markerWrites <= 1
  /\ obs.markerWrites > 0 =>
       /\ N > 0
       /\ \A i \in 1..N :
            /\ ret[i] = "ok"
            /\ variant = "tui" => status[i] = stepDone

\* ---------------------------------------------------------------------- C5
\* C5 as stated: verifyBitcoinCoreSigs(2) returns nil iff gpg reported a good
\* signature for at least 2 of the 5 trusted signers, and its error carries
\* the observed and the required count.
C5_Threshold ==
  obs.sigsRun =>
    /\ (obs.sigsRet = Nil) <=> (obs.good >= MinValid)
    /\ obs.sigsRet # Nil =>
         /\ obs.sigsRet.got = obs.good
         /\ obs.sigsRet.need = MinValid

\* ---------------------------------------------------------------------- C6
\* C6 as stated: when a key imported for a signer has another fingerprint
\* than the pinned one, importBitcoinCoreKeys returns an error and Bitcoin
\* Core is neither extracted nor placed in that run.
C6_Pinning ==
  obs.keyMismatch =>
    /\ obs.importRet # "ok"
    /\ ~obs.extracted.btc
    /\ ~obs.placed.btc

\* ---------------------------------------------------------------------- C7
\* C7: for both families, when a checksum listing is there and does not list
\* the tarball's digest, the step that verifies fails and the artifact is
\* neither extracted nor placed, whatever the signatures say.
C7_ChecksumIndependence ==
  \A fam \in Families :
    obs.mismatch[fam] =>
      /\ ~obs.extracted[fam]
      /\ ~obs.placed[fam]
      /\ \A i \in VerifySteps(fam) : ret[i] = "err"

\* the signature threshold was met and the checksum did not match
C7_Witness ==
  /\ obs.mismatch.btc
  /\ obs.sigsRun
  /\ obs.sigsRet = Nil
  /\ obs.good >= MinValid
  /\ \E i \in VerifySteps("btc") : ret[i] = "err"

\* ---------------------------------------------------------------------- C8
\* C8 as stated: when the LND manifest could not be downloaded in this run,
\* the download step and the verify step both succeed and no checksum is
\* checked.
C8_MissingManifest ==
  obs.manifestFailed =>
    /\ ~obs.mismatch.lnd
    /\ \A i \in StepsNamed({"Downloading LND 0.20.0-beta", "Verifying LND"}) :
         ret[i] # "err"

\* ---------------------------------------------------------------------- C9
\* C9 as stated: when the manifest was obtained and its detached signature is
\* not a good signature of the pinned key, the verify step fails and LND is
\* never extracted.
C9_BadSignature ==
  obs.lndSig = "bad" =>
    /\ \A i \in StepsNamed({"Verifying LND"}) : ret[i] # "ok"
    /\ ~obs.extracted.lnd
    /\ ~obs.placed.lnd

\* --------------------------------------------------------------------- C10
\* C10: for each family, in every run, the tarball is extracted only after it
\* was fetched and its verification succeeded, binaries are placed only after
\* the extraction succeeded, and a failed fetch or verify step leaves the
\* artifact unextracted and unplaced.
C10_Sequencing ==
  \A fam \in Families :
    /\ obs.extracted[fam] => obs.fetched[fam] /\ obs.verified[fam]
    /\ obs.placed[fam] => obs.extracted[fam]
    /\ obs.verified[fam] => obs.fetched[fam]
    /\ variant = "tui" =>
         \A i \in FetchSteps(fam) \cup VerifySteps(fam) :
           ret[i] # "ok" => ~obs.extracted[fam] /\ ~obs.placed[fam]

\* both artifacts went through fetch, verify, extract and placement
C10_Witness ==
  /\ variant = "tui"
  /\ obs.placed.btc
  /\ obs.placed.lnd

\* --------------------------------------------------------------------- C15
\* main found the effective user not to be root, or /etc/os-release
\* unreadable or without the line ID=debian
PreconditionFailed ==
  /\ obs.pre.checked
  /\ \/ ~obs.pre.root
     \/ ~obs.pre.rel.readable
     \/ "ID=debian" \notin obs.pre.rel.lines

\* C15: when the process is not root or the OS check fails, no configuration
\* is gathered, no step is built or invoked, no marker is written, and the
\* process ends with an error.
C15_Preconditions ==
  PreconditionFailed =>
    /\ cfg = NoConfig
    /\ N = 0
    /\ invoked = << >>
    /\ obs.markerWrites = 0
    /\ ~sys.marker
    /\ pc = "exit"
    /\ runErr.err # Nil

\* root on a readable os-release that is not Debian's: ended with the error
C15_Witness ==
  /\ obs.pre.checked
  /\ obs.pre.root
  /\ obs.pre.rel.readable
  /\ "ID=debian" \notin obs.pre.rel.lines
  /\ pc = "exit"
  /\ runErr.err = Err("unsupported OS")

\* --------------------------------------------------------------------- C16
\* C16 as stated: when the fn of a step returned an error, what Run returns
\* names that step and wraps its error; at most one step is Failed, it is the
\* step at index current, the steps before it are Succeeded and the steps
\* after it Pending.
C16_ErrorNamesFailedStep ==
  /\ \A i \in 1..N :
       (ret[i] = "err" /\ Ended) =>
         /\ runErr.step = steps[i]
         /\ runErr.err # Nil
         /\ variant = "tui" => runErr.err = errs[i]
  /\ variant = "tui" =>
       \A i \in 1..N :
         status[i] = stepFailed =>
           /\ i = current
           /\ \A j \in 1..(i - 1) : status[j] = stepDone
           /\ \A j \in (i + 1)..N : status[j] = stepPending

\* --------------------------------------------------------------------- C17
Started(name) == \E i \in 1..N : steps[i] = name /\ i \in InvokedSet
ReturnedNil(name) == \E i \in 1..N : steps[i] = name /\ ret[i] = "ok"

\* C17: in every run and configuration, startBitcoind is invoked only after
\* restartTor, writeBitcoinConfig and writeBitcoindService returned nil, and
\* startLND only after startBitcoind, writeLNDConfig and
\* writeLNDServiceInitial returned nil.
C17_InstallOrder ==
  /\ Started("Starting Bitcoin Core") =>
       /\ ReturnedNil("Starting Tor")
       /\ ReturnedNil("Configuring Bitcoin Core")
       /\ ReturnedNil("Creating bitcoind service")
  /\ Started("Starting LND") =>
       /\ ReturnedNil("Starting Bitcoin Core")
       /\ ReturnedNil("Configuring LND")
       /\ ReturnedNil("Creating LND service")

\* the LND service has been started
C17_Witness ==
  /\ Started("Starting LND")
  /\ ReturnedNil("Starting LND")

\* --------------------------------------------------------------------- C20
\* C20 as stated: LND is extracted or placed only when the pinned roasbeef key
\* has been imported and found in the keyring by its fingerprint.
C20_LNDKeyPinned ==
  (obs.extracted.lnd \/ obs.placed.lnd) =>
    gpgHasFingerprint(sys.keyring, lndSigner.fingerprint)

\* ======================================= properties of the functions called
\* the step names of the scenario, in the order the spec gives them
ScenarioBase ==
  << "Creating system user", "Creating directories", "Disabling IPv6",
     "Configuring firewall", "Installing Tor", "Configuring Tor",
     "Adding user to debian-tor group", "Starting Tor" >>
ScenarioNode ==
  << "Configuring Bitcoin Core", "Creating bitcoind service",
     "Starting Bitcoin Core" >>

\* names that belong to the secondary component
LndNames ==
  { "Installing LND 0.20.0-beta", "Downloading LND 0.20.0-beta", "Verifying LND",
    "Installing LND", "Configuring LND", "Creating LND service", "Starting LND" }

\* base-only, storage budget 25, admin port 22 (either network)
ScenarioConfig(c) ==
  c.components = "bitcoin" /\ c.pruneSize = 25 /\ c.sshPort = 22

\* --------------------------------------------------------------------- C11
\* C11 as stated: for the base-only configuration buildSteps yields exactly
\* 12 steps, the artifact being installed by the single ninth step.
C11_TwelveSteps ==
  (call.op = "buildSteps" /\ ScenarioConfig(call.cfg)) =>
    /\ Len(call.steps) = 12
    /\ SubSeq(call.steps, 1, 8) = ScenarioBase
    /\ call.steps[9] \in {"Installing Bitcoin Core 29.2", "Installing Bitcoin Core"}
    /\ SubSeq(call.steps, 10, 12) = ScenarioNode

\* C11 amended: for the base-only configuration buildSteps of setup.go yields
\* exactly the 12 steps of the scenario; buildSteps of the progress program
\* yields 14, the same list with the artifact step split into download,
\* verify and install.
C11_BaseOnlySteps ==
  (call.op = "buildSteps" /\ ScenarioConfig(call.cfg)) =>
    IF variant = "cli"
    THEN call.steps = ScenarioBase \o << "Installing Bitcoin Core 29.2" >> \o ScenarioNode
    ELSE call.steps = ScenarioBase
                      \o << "Downloading Bitcoin Core 29.2", "Verifying Bitcoin Core",
                            "Installing Bitcoin Core" >>
                      \o ScenarioNode

\* buildSteps of setup.go was called with the scenario's configuration
C11_Witness ==
  /\ call.op = "buildSteps"
  /\ variant = "cli"
  /\ ScenarioConfig(call.cfg)
  /\ call.cfg.network = "mainnet"
  /\ Len(call.steps) = 12

\* --------------------------------------------------------------------- C12
\* C12 as stated: selecting LND yields exactly 6 more steps, appended to the
\* 12 base steps; base-only yields no LND step.
C12_SixAfterTwelve ==
  call.op = "buildSteps" =>
    /\ Len(call.steps) = 12 + (IF call.cfg.components = "bitcoin+lnd" THEN 6 ELSE 0)
    /\ \A i \in 1..Len(call.steps) :
         call.steps[i] \in LndNames <=> i > 12

\* number of base steps and of LND steps in each generation
BaseCount(v) == IF v = "cli" THEN Len(ScenarioBase) + 1 + Len(ScenarioNode)
                ELSE Len(ScenarioBase) + 3 + Len(ScenarioNode)
ExtraCount(v) == IF v = "cli" THEN Len(ScenarioNode) + 1 ELSE Len(ScenarioNode) + 3

\* C12 amended: the step list is determined by cfg.components alone; with LND
\* selected it is the base-only list (12 steps in setup.go, 14 in the progress
\* program) followed by the LND steps (4 in setup.go, 6 in the progress
\* program); base-only has no LND step.
C12_StepList ==
  call.op = "buildSteps" =>
    LET base == BaseCount(variant)
        lnd == call.cfg.components = "bitcoin+lnd"
    IN  /\ Len(call.steps) = base + (IF lnd THEN ExtraCount(variant) ELSE 0)
        /\ SubSeq(call.steps, 1, 8) = ScenarioBase
        /\ SubSeq(call.steps, base - 2, base) = ScenarioNode
        /\ \A i \in 1..Len(call.steps) : call.steps[i] \in LndNames <=> i > base
        /\ \A i, j \in 1..Len(call.steps) : call.steps[i] = call.steps[j] => i = j

\* buildSteps of the progress program was called with LND selected
C12_Witness ==
  /\ call.op = "buildSteps"
  /\ variant = "tui"
  /\ call.cfg.components = "bitcoin+lnd"
  /\ Len(call.steps) = 20

\* --------------------------------------------------------------------- C13
\* the port arguments of the ufw allow commands that were executed
AllowRules(issued) ==
  { issued[i][3] : i \in { j \in DOMAIN issued : issued[j][2] = "allow" } }

P2PSelected(c) == c.components = "bitcoin+lnd" /\ c.p2pMode = "hybrid"

C14_IdempotentUser ==
  call.op = "createSystemUser" =>
    /\ call.before =>
         /\ call.res.err = Nil
         /\ ~call.res.adduser
         /\ call.res.exists
    /\ (call.again /\ call.prevErr = Nil) =>
         /\ call.before
         /\ call.res.err = Nil
         /\ ~call.res.adduser
         /\ call.res.exists = call.before

\* the step was run again after a run that succeeded
C14_Witness ==
  /\ call.op = "createSystemUser"
  /\ call.again
  /\ call.prevErr = Nil
  /\ call.res.err = Nil

\* --------------------------------------------------------------------- C18
\* C18 as stated: the count compared with the threshold is the number of
\* trusted signers whose own signature gpg reported good.
C18_GoodCount ==
  (/\ call.op = "verifyBitcoinCoreSigs"
   /\ Exists(call.files.sums)
   /\ Exists(call.files.asc)) =>
    call.count = Cardinality(goodSigners(call.sg))

\* --------------------------------------------------------------------- C19
\* C19: importBitcoinCoreKeys goes through the signers in order; a failed
\* download never makes it return an error or stop; it returns an error only
\* at a signer whose key was downloaded and does not carry the pinned
\* fingerprint, and then that signer is the last one attempted.
C19_BestEffortImport ==
  call.op = "importBitcoinCoreKeys" =>
    LET r == call.res
        keys == call.keys
    IN  /\ \E m \in 0..NumSigners : r.tried = 1..m
        /\ r.err = Nil => r.tried = Signers
        /\ (\A k \in Signers : keys[k] # "substituted") => r.err = Nil
        /\ r.err # Nil =>
             /\ r.err.kind = "key fingerprint mismatch"
             /\ \E k \in r.tried :
                  /\ keys[k] = "substituted"
                  /\ \A j \in r.tried : j <= k

\* three key downloads failed and the import went through all five signers
C19_Witness ==
  /\ call.op = "importBitcoinCoreKeys"
  /\ Cardinality({ k \in Signers : call.keys[k] = "fail" }) = 3
  /\ call.res.err = Nil
  /\ call.res.tried = Signers

\* ============================================ properties of the pipeline, II
\* --------------------------------------------------------------------- C21
\* C21 as stated: Bitcoin Core is placed only when its checksum listing was
\* there and was checked and the detached signatures SHA256SUMS.asc were there
\* (a missing listing or a missing signature file is a hard failure for this
\* family; only the LND family may go on without its manifest).
C21_MissingSignatureFatal ==
  obs.placed.btc =>
    /\ obs.verified.btc
    /\ Exists(sys.files.asc)

\* --------------------------------------------------------------------- C22
\* Run got past the pipeline and the wallet phase, and setupAutoUnlock or
\* setupShellEnvironment failed
NonCriticalFailure ==
  /\ call.op = "runTail"
  /\ call.walletOk
  /\ call.unlockFailed \/ call.shellFailed

C23_NonResumable ==
  /\ (sys.marker /\ obs.markerWrites = 0) =>
       /\ pc \in {"main", "exit"}
       /\ cfg = NoConfig
       /\ N = 0
       /\ invoked = << >>
  /\ FailedStep # 0 => ~sys.marker
  /\ obs.prevFailed # 0 =>
       /\ run > 1
       /\ pc = "main" => ~sys.marker
       /\ N > 0 =>
            /\ steps = buildSteps(variant, cfg)
            /\ current = 1
            /\ invoked \in {<< >>, << 1 >>}
            /\ \A i \in 1..N : errs[i] = Nil /\ ret[i] = "none"
            /\ \A i \in 2..N : status[i] = stepPending
            /\ variant = "tui" => status[1] = stepRunning /\ inflight.index = 1

\* the invocation after one whose tenth step failed is running its first step
C23_Witness ==
  /\ run = 2
  /\ obs.prevFailed = 10
  /\ pc = "steps"
  /\ current = 1
  /\ status[1] = stepRunning
  /\ status[10] = stepPending

\* --------------------------------------------------------------------- C24
\* C24: while the progress program runs, a step of Update that handles a key
\* or a resize (it changes quit or the window size) leaves every step's
\* status and error, current, done and failed as they are; these change only
\* in the step of Update that consumes a stepDoneMsg.
C24_Frame ==
  [][ (pc = "steps" /\ pc' = "steps") =>
        /\ (size' # size \/ quit' # quit) =>
             UNCHANGED << status, errs, current, done, failed >>
        /\ << status, errs, current, done, failed >>' #
             << status, errs, current, done, failed >> =>
               (msg # NoMsg /\ msg' = NoMsg) ]_vars

\* the window was resized and enter, q or ctrl+c handled after the last step
\* succeeded
C24_Witness ==
  /\ pc = "steps"
  /\ size.width = 80
  /\ quit
  /\ done
  /\ ~failed
  /\ \A i \in 1..N : status[i] = stepDone

\* --------------------------------------------------------------------- C25
Running == { i \in 1..N : status[i] = stepRunning }

C25_Inv ==
  /\ Cardinality(Running) <= 1
  /\ inflight.index # 0 =>
       /\ msg = NoMsg
       /\ Running = {inflight.index}

C25_Starts ==
  [][ (inflight' # NoFlight /\ inflight'.index # inflight.index) =>
        /\ inflight = NoFlight
        /\ UNCHANGED << size, quit >>
        /\ \/ pc = "build"
           \/ /\ pc = "steps"
              /\ msg # NoMsg
              /\ msg.err = Nil
              /\ msg' = NoMsg
              /\ inflight'.index = msg.index + 1 ]_vars

\* C25: in every state at most one step is Running and at most one step
\* command is in flight, and it is the Running step's; a command is started
\* only when none is in flight, by runInstallTUI for the first step and else
\* by the step of Update that consumes the stepDoneMsg of the step before it,
\* never by a step that handles a key or a resize.
C25_SingleThread == []C25_Inv /\ C25_Starts

\* ctrl+c and a resize arrived while the fifth step's command was in flight
C25_Witness ==
  /\ pc = "steps"
  /\ inflight.index = 5
  /\ Running = {5}
  /\ size.width = 80
  /\ quit

\* ================================================ properties of the dashboard
\* --------------------------------------------------------------------- C26
\* what two presses of backspace make of the model
Back1 == welcomeUpdateKey(welcome, "backspace", 1)
Back2 == welcomeUpdateKey(Back1, "backspace", 1)

C26_Back ==
  (welcome.shown /\ ~welcome.quit /\ welcome.subview # "none") =>
    /\ welcome.subview \in {"qr", "macaroon"} => Back1.subview = "zeus"
    /\ welcome.subview \in {"zeus", "sparrow"} => Back1.subview = "none"
    /\ Back2.subview = "none"
    /\ ~Back1.quit /\ ~Back2.quit
    /\ Back1.activeTab = welcome.activeTab
    /\ Back2.activeTab = welcome.activeTab

C26_TabKept ==
  [][ (welcome.shown /\ welcome'.subview # welcome.subview) =>
        welcome'.activeTab = welcome.activeTab ]_vars

\* C26: in every subview backspace goes back, from QR and Macaroon to Zeus and
\* from Zeus and Sparrow to the main screen, so two presses of backspace reach
\* the main screen from every subview; no step that enters or leaves a
\* subview changes the active tab.
C26_Navigation == []C26_Back /\ C26_TabKept

\* the QR screen, two levels below the Pairing tab, is shown
C26_Witness ==
  /\ welcome.shown
  /\ welcome.subview = "qr"
  /\ welcome.activeTab = tabPairing
  /\ Back1.subview = "zeus"

\* ---------------------------------------------------------------- C27
\* C27: whatever keys were pressed, questions, cursors and answers have the
\* same length, current is an index of a question, every cursor is an index
\* of an option of its question, and the "LND P2P Mode" question occurs at
\* most once and is there exactly when the answer last entered for Components
\* is bitcoin+lnd.
C27_Structure ==
  wizard.started =>
    LET m == wizard.m
        n == Len(m.questions)
    IN  /\ Len(m.cursors) = n
        /\ Len(m.answers) = n
        /\ m.current \in 0..(n - 1)
        /\ \A i \in 1..n : m.cursors[i] \in 0..(Len(options(m.questions[i])) - 1)
        /\ Cardinality({ i \in 1..n : m.questions[i] = p2pQuestion }) <= 1
        /\ hasP2P(m) <=> wizard.entered["Components"] = "bitcoin+lnd"

\* the operator went back from a complete set of answers and chose
\* bitcoin+lnd: the P2P question was inserted in front of the answered SSH
\* question
C27_Witness ==
  /\ wizard.started
  /\ hasP2P(wizard.m)
  /\ wizard.entered["SSH Port"] = "custom"
  /\ wizard.m.current = 2
  /\ wizard.prev = phaseQuestions

\* ---------------------------------------------------------------- C28
\* the option of a question that a configuration stands for
optionOf(c, title) ==
  CASE title = "Network" -> c.network
    [] title = "Components" -> c.components
    [] title = "Blockchain Storage (Pruned)" -> ToString(c.pruneSize)
    [] title = "LND P2P Mode" -> c.p2pMode
    [] title = "SSH Port" -> IF c.sshPort = 22 THEN "22" ELSE "custom"

\* Confirmed is entered from Summary only, and in Summary every question has
\* an answer
C28_Phases ==
  wizard.started =>
    LET m == wizard.m IN
    /\ m.phase = phaseConfirmed => wizard.prev = phaseSummary
    /\ m.phase = phaseSummary => \A i \in 1..Len(m.questions) : m.answers[i] # ""

\* the configuration holds the option last entered for the question; hybrid
\* is given up for tor when no public address was found
Holds(c, title) ==
  \/ optionOf(c, title) = wizard.entered[title]
  \/ /\ title = p2pQuestion
     /\ wizard.entered[title] = "hybrid"
     /\ c.p2pMode = "tor"
     /\ c.publicIPv4 = ""

\* hybrid only with LND selected and a public address
C28_Hybrid ==
  wizard.returned /\ wizard.result # NoConfig /\ wizard.result.p2pMode = "hybrid"
    => /\ wizard.result.components = "bitcoin+lnd"
       /\ wizard.result.publicIPv4 # ""

\* C28: the wizard is Confirmed only from Summary, Summary is reached only
\* with an answer for every question, the configuration RunTUI returns holds
\* for each question the option on which the operator last pressed enter, and
\* a hybrid configuration has LND selected and a public IPv4 address.
C28_Result ==
  /\ C28_Phases
  /\ C28_Hybrid
  /\ wizard.returned /\ wizard.result # NoConfig =>
       \A i \in 1..Len(wizard.m.questions) :
         Holds(wizard.result, wizard.m.questions[i])

\* the same without the SSH Port question
C28_ButSsh ==
  /\ C28_Phases
  /\ C28_Hybrid
  /\ wizard.returned /\ wizard.result # NoConfig =>
       \A i \in 1..Len(wizard.m.questions) :
         wizard.m.questions[i] # sshQuestion =>
           Holds(wizard.result, wizard.m.questions[i])

\* ---------------------------------------------------------------- C29
UfwEnable == << "ufw", "--force", "enable" >>

\* C29: in every call of configureFirewall "ufw --force enable" is issued
\* after the rule that allows cfg.sshPort/tcp and after every other command;
\* a call that returns nil has issued it; when a command before it fails, it
\* is not issued and the error returned is that of the failed command, which
\* is the last one issued.
C29_FirewallOrder ==
  call.op = "configureFirewall" =>
    LET issued == call.res.issued
        n == Len(issued)
        allowSsh == << "ufw", "allow", PortTcp(call.cfg.sshPort) >>
    IN  /\ \A i \in 1..n :
             issued[i] = UfwEnable =>
               /\ i = n
               /\ \E j \in 1..(i - 1) : issued[j] = allowSsh
        /\ call.res.err = Nil => n > 0 /\ issued[n] = UfwEnable
        /\ call.res.err # Nil /\ call.res.args # UfwEnable =>
             \A i \in 1..n : issued[i] # UfwEnable
        /\ call.res.err # Nil /\ n > 0 => call.res.args = issued[n]

\* the rule for the SSH port failed
C29_Witness ==
  /\ call.op = "configureFirewall"
  /\ call.res.err # Nil
  /\ call.res.args = << "ufw", "allow", "22/tcp" >>
  /\ Len(call.res.issued) = 3

\* ---------------------------------------------------------------- C30
\* the wizard of this invocation was cancelled: main got past the marker, the
\* root and the OS check and Run ended without a configuration
Cancelled ==
  /\ pc = "exit"
  /\ cfg = NoConfig
  /\ obs.pre.checked
  /\ obs.pre.root
  /\ "ID=debian" \in obs.pre.rel.lines

C30_State ==
  Cancelled =>
    /\ N = 0
    /\ invoked = << >>
    /\ runErr = NoRunErr
    /\ ~sys.marker
    /\ obs.markerWrites = 0
    /\ obs.fetched = Flags /\ obs.placed = Flags

\* C30: an invocation whose wizard is cancelled has built and invoked no
\* step, the step that cancels leaves the machine (marker, keyring, files) as
\* it was, Run returns no error, and the invocation that follows finds no
\* marker and starts at main with the machine unchanged.
C30_Cancel ==
  /\ []C30_State
  /\ [][ /\ (pc = "main" /\ Cancelled') => sys' = sys
         /\ (Cancelled /\ run' # run) =>
              /\ pc' = "main"
              /\ sys' = sys
              /\ ~sys'.marker ]_vars

\* the wizard was cancelled on a machine where an earlier invocation had
\* failed after importing keys
C30_Witness ==
  /\ Cancelled
  /\ run = 2
  /\ obs.prevFailed # 0
  /\ sys.keyring # {}

\* ---------------------------------------------------------------- C31
\* every step of the pipeline has returned nil (and is Succeeded in the
\* progress program)
AllSucceeded ==
  /\ N > 0
  /\ \A i \in 1..N :
       /\ ret[i] = "ok"
       /\ variant = "tui" => status[i] = stepDone

\* C31 as stated, the part about the pipeline: Run is in the wallet-creation
\* phase only when LND is selected and every step of the pipeline has
\* Succeeded.
C31_WalletAfterSteps ==
  pc = "wallet" => cfg.components = "bitcoin+lnd" /\ AllSucceeded

\* the part about waitForLND: at most 60 requests are made; nil is returned at
\* the first request that is answered and an error after 60 that were not;
\* when it returns an error the outcome of lncli create does not matter, Run
\* returns "LND not ready" and no marker is written.
C31_BoundedWait ==
  call.op = "waitForLND" =>
    /\ call.res.attempts \in 1..60
    /\ (call.res.err = Nil) <=> (call.up <= 60)
    /\ call.res.err = Nil => call.res.attempts = call.up
    /\ call.res.err # Nil =>
         /\ call.res.attempts = 60
         /\ call.tail.err = Err("LND not ready")
         /\ ~call.tail.marker
    /\ (call.res.err = Nil /\ ~call.created) =>
         call.tail.err = Err("lncli create failed") /\ ~call.tail.marker

\* ---------------------------------------------------------------- C32
\* the tab is one of the three, and on the main screen tab/right and
\* shift+tab/left undo each other
C32_Tabs ==
  welcome.shown =>
    /\ welcome.activeTab \in {tabDashboard, tabPairing, tabLogs}
    /\ welcome.subview = "none" =>
         \A fwd \in {"tab", "right"}, back \in {"shift+tab", "left"} :
           /\ updateMain(updateMain(welcome, fwd, 1), back, 1).activeTab
                = welcome.activeTab
           /\ updateMain(updateMain(welcome, back, 1), fwd, 1).activeTab
                = welcome.activeTab
           /\ updateMain(welcome, fwd, 1).activeTab # welcome.activeTab

\* the Zeus, macaroon and QR screens and the LND log are shown only with LND
C32_LndOnly ==
  (welcome.shown /\ ~welcome.hasLND) =>
    /\ welcome.subview \notin {"zeus", "macaroon", "qr"}
    /\ welcome.logSource # "lnd"

\* the number of lines above the window when it shows the newest lines
ScrollRoom ==
  LET visible == IF welcome.gen = "v5" THEN wBoxHeight - 3 ELSE logsVisible(welcome)
      d == welcome.logLines - visible
  IN  IF d < 0 THEN 0 ELSE d

\* C32 as stated: whatever keys and resizes the dashboard has handled, the
\* active tab is Dashboard, Pairing or Logs and the tab keys are inverse
\* cyclic moves, the Zeus, macaroon and QR screens and the LND log source
\* occur only when the configuration has LND, and
\* 0 <= logOffset <= max(0, number of log lines - visible lines).
C32_Dashboard ==
  /\ C32_Tabs
  /\ C32_LndOnly
  /\ welcome.shown => welcome.logOffset \in 0..ScrollRoom

\* the same with the upper bound of logOffset only in the generation whose
\* box has a fixed height
C32_ButResize ==
  /\ C32_Tabs
  /\ C32_LndOnly
  /\ welcome.shown => welcome.logOffset >= 0
  /\ (welcome.shown /\ welcome.gen = "v5") => welcome.logOffset <= ScrollRoom

====
